---------------------------- MODULE Spec2Model ----------------------------
(***************************************************************************)
(* A model of the Piccolo language core: the Emitter, which compiles an    *)
(* AST into a Chunk of bytecode, and the Machine, which interprets a       *)
(* Chunk against a value stack, a table of globals and a heap.             *)
(*                                                                         *)
(* Conventions.                                                            *)
(*  - Rust indices are 0-based, TLA+ sequences 1-based: byte offset i of   *)
(*    chunk.data is data[i + 1], constant index i is constants[i + 1],     *)
(*    stack slot i is stack[i + 1].                                        *)
(*  - A string is a sequence of one-character strings.                     *)
(*  - i64 is modelled by a two's-complement word of IntBits bits.          *)
(*  - f64 is modelled by an exact rational num/den: den > 0 for a finite   *)
(*    non-zero value, num = 0 with den = 1 / -1 for +0.0 / -0.0, den = 0   *)
(*    with num = 1 / -1 for +inf / -inf and num = den = 0 for NaN.         *)
(*    Rounding is not modelled.                                            *)
(*  - A Rust panic (process abort) is the outcome "panic".                 *)
(***************************************************************************)
EXTENDS Integers, Sequences, FiniteSets, TLC

VARIABLES
    scanner,      \* the Scanner: source, tokens, start, current, line
    program,      \* the AST handed to Emitter::compile: a sequence of Stmt
    phase,        \* where the run is: "new", "scan", "compile", "run", "done", "returned"
    next_stmt,    \* compile: number of top-level statements already visited
    em,           \* the Emitter: chunk, strings, identifiers, scope_depth, locals
    errs,         \* compile: the errors collected so far
    chunk,        \* the Chunk the Machine interprets
    ip,           \* Machine.ip
    globals,      \* Machine.globals
    stack,        \* Machine.stack
    heap,         \* Machine.heap: handle h is heap[h]
    stdout,       \* the lines written by println!
    result,       \* the outcome of interpret: none | ok | err | errs | panic
    last          \* the step just taken (history, for stating the claims)

vars == <<scanner, program, phase, next_stmt, em, errs, chunk, ip, globals, stack, heap,
          stdout, result, last>>

(***************************************************************************)
(* Bounds of the model.                                                    *)
(***************************************************************************)
\* the width, in bits, of the word that stands for i64
IntBits == 6
\* integer literals of generated programs are 0 .. MaxLit (and IntMax)
MaxLit == 2

IntMax == 2 ^ (IntBits - 1) - 1
IntMin == -(2 ^ (IntBits - 1))

(***************************************************************************)
(* Scanner::new: nothing scanned yet, on line 1.                           *)
(***************************************************************************)
NewScanner(source) ==
    [source |-> source, tokens |-> <<>>, start |-> 0, current |-> 0, line |-> 1]

(***************************************************************************)
(* Small helpers.                                                          *)
(***************************************************************************)
Abs(x) == IF x < 0 THEN -x ELSE x

Sign(x) == IF x < 0 THEN -1 ELSE IF x > 0 THEN 1 ELSE 0

RECURSIVE Gcd(_, _)
Gcd(a, b) == IF b = 0 THEN a ELSE Gcd(b, a % b)

\* Rust's integer division truncates toward zero
TruncDiv(a, b) == Sign(a) * Sign(b) * (Abs(a) \div Abs(b))

\* Rust's % is the remainder of the truncating division
TruncRem(a, b) == a - b * TruncDiv(a, b)

\* two's-complement wrap of an exact result into the word
WrapInt(x) == ((x - IntMin) % (2 ^ IntBits)) + IntMin

Last(s) == s[Len(s)]

Front(s) == SubSeq(s, 1, Len(s) - 1)

(***************************************************************************)
(* Opcodes and the encoding of 16-bit operands.                            *)
(***************************************************************************)
\* the opcodes! table of op.rs, under the names the Machine and the Emitter
\* use for bytes 15 and 17
OpBase ==
    [Return |-> 0, Constant |-> 1, Nil |-> 2, True |-> 3, False |-> 4,
     Negate |-> 5, Add |-> 6, Subtract |-> 7, Multiply |-> 8, Divide |-> 9,
     Not |-> 10, Equal |-> 11, Greater |-> 12, Less |-> 13, Pop |-> 14,
     DeclareGlobal |-> 15, GetGlobal |-> 16, SetGlobal |-> 17]

\* the opcodes the Machine and the Emitter use beyond that table
OpExt ==
    [Modulo |-> 18, GreaterEqual |-> 19, LessEqual |-> 20,
     GetLocal |-> 21, SetLocal |-> 22, Jump |-> 24, JumpFalse |-> 25]
    @@ ("Assert" :> 23)

Op == OpBase @@ OpExt

\* the outcome of From<u8> on a byte that is the number of no opcode: a panic
NoOpcode == "NoOpcode"

\* From<u8> for Opcode
OpName == [b \in 0 .. 255 |->
             IF \E n \in DOMAIN Op : Op[n] = b
             THEN CHOOSE n \in DOMAIN Op : Op[n] = b
             ELSE NoOpcode]

\* ((high as u16) << 8) | (low as u16)
encode_bytes(low, high) == high * 256 + low

\* a decoding that returns the high byte first
DecodeHighFirst(bytes) == [low |-> (bytes \div 256) % 256, high |-> bytes % 256]

\* (low, high) of a u16
decode_bytes(bytes) == [low |-> bytes % 256, high |-> (bytes \div 256) % 256]

(***************************************************************************)
(* Constants (compile-time literals) and Values (stack cells).             *)
(***************************************************************************)
CNil == [t |-> "Nil"]
CBool(b) == [t |-> "Bool", b |-> b]
CInteger(i) == [t |-> "Integer", i |-> i]
CDouble(n, d) == [t |-> "Double", num |-> n, den |-> d]
CString(s) == [t |-> "String", s |-> s]

VNil == [t |-> "Nil"]
VBool(b) == [t |-> "Bool", b |-> b]
VInteger(i) == [t |-> "Integer", i |-> i]
VDouble(n, d) == [t |-> "Double", num |-> n, den |-> d]
VObject(h) == [t |-> "Object", h |-> h]


(***************************************************************************)
(* f64 arithmetic on the rational representation.                          *)
(***************************************************************************)
DNaN == [num |-> 0, den |-> 0]
DInf(sgn) == [num |-> sgn, den |-> 0]
DZero(sgn) == [num |-> 0, den |-> sgn]

IsNaN(d) == d.den = 0 /\ d.num = 0
IsInf(d) == d.den = 0 /\ d.num # 0
IsZero(d) == d.den # 0 /\ d.num = 0

\* the sign bit: 1 or -1 (0 for NaN)
DSign(d) == IF d.den = 0 THEN d.num ELSE IF d.num = 0 THEN d.den ELSE Sign(d.num)

\* the finite value n/d in lowest terms; a zero takes the sign sgn
DNorm(n, d, sgn) ==
    IF n = 0 THEN DZero(sgn)
    ELSE LET g == Gcd(Abs(n), Abs(d))
         IN  [num |-> Sign(n) * Sign(d) * (Abs(n) \div g), den |-> Abs(d) \div g]

DNeg(d) ==
    IF IsNaN(d) THEN DNaN
    ELSE IF d.den = 0 THEN DInf(-d.num)
    ELSE IF d.num = 0 THEN DZero(-d.den)
    ELSE [num |-> -d.num, den |-> d.den]

DAdd(a, b) ==
    IF IsNaN(a) \/ IsNaN(b) THEN DNaN
    ELSE IF IsInf(a) THEN (IF IsInf(b) /\ b.num # a.num THEN DNaN ELSE a)
    ELSE IF IsInf(b) THEN b
    ELSE IF IsZero(a) /\ IsZero(b)
         THEN (IF a.den = -1 /\ b.den = -1 THEN DZero(-1) ELSE DZero(1))
    ELSE IF IsZero(a) THEN b
    ELSE IF IsZero(b) THEN a
    ELSE DNorm(a.num * b.den + b.num * a.den, a.den * b.den, 1)

DSub(a, b) == DAdd(a, DNeg(b))

DMul(a, b) ==
    IF IsNaN(a) \/ IsNaN(b) THEN DNaN
    ELSE IF IsInf(a) \/ IsInf(b)
         THEN (IF IsZero(a) \/ IsZero(b) THEN DNaN ELSE DInf(DSign(a) * DSign(b)))
    ELSE DNorm(a.num * b.num, Abs(a.den * b.den), DSign(a) * DSign(b))

DDiv(a, b) ==
    IF IsNaN(a) \/ IsNaN(b) THEN DNaN
    ELSE IF IsInf(a) THEN (IF IsInf(b) THEN DNaN ELSE DInf(DSign(a) * DSign(b)))
    ELSE IF IsInf(b) THEN DZero(DSign(a) * DSign(b))
    ELSE IF IsZero(b) THEN (IF IsZero(a) THEN DNaN ELSE DInf(DSign(a) * DSign(b)))
    ELSE DNorm(a.num * b.den, Abs(a.den) * b.num, DSign(a) * DSign(b))

\* Rust's % on f64 is fmod: the result has the sign of the dividend
DRem(a, b) ==
    IF IsNaN(a) \/ IsNaN(b) \/ IsInf(a) \/ IsZero(b) THEN DNaN
    ELSE IF IsInf(b) \/ IsZero(a) THEN a
    ELSE LET q == TruncDiv(a.num * b.den, a.den * b.num)
         IN  DNorm(a.num * b.den - q * b.num * a.den, a.den * b.den, DSign(a))

\* `i as f64`
IntToDouble(i) == IF i = 0 THEN DZero(1) ELSE [num |-> i, den |-> 1]

DArith(op, a, b) ==
    CASE op = "+" -> DAdd(a, b)
      [] op = "-" -> DSub(a, b)
      [] op = "*" -> DMul(a, b)
      [] op = "/" -> DDiv(a, b)
      [] op = "%" -> DRem(a, b)

(***************************************************************************)
(* i64 arithmetic.  The outcome is a set: an overflowing + - * and unary - *)
(* panics when the build checks overflow and wraps when it does not; /     *)
(* and % panic on a zero divisor and on IntMin / -1 in every build.        *)
(***************************************************************************)
IntExact(op, l, r) ==
    CASE op = "+" -> l + r
      [] op = "-" -> l - r
      [] op = "*" -> l * r
      [] op = "/" -> TruncDiv(l, r)
      [] op = "%" -> TruncRem(l, r)

IntArith(op, l, r) ==
    IF op \in {"/", "%"}
    THEN (IF r = 0 \/ (l = IntMin /\ r = -1)
          THEN {[panic |-> TRUE]}
          ELSE {[panic |-> FALSE, i |-> IntExact(op, l, r)]})
    ELSE LET x == IntExact(op, l, r)
         IN  IF IntMin <= x /\ x <= IntMax
             THEN {[panic |-> FALSE, i |-> x]}
             ELSE {[panic |-> TRUE], [panic |-> FALSE, i |-> WrapInt(x)]}

(***************************************************************************)
(* The Heap and the Value methods the Machine uses.  Their source file is  *)
(* not part of the repository snapshot; they follow the specification      *)
(* (sections 3, 4.5 and 4.6).                                              *)
(***************************************************************************)
Digit == <<"0", "1", "2", "3", "4", "5", "6", "7", "8", "9">>

RECURSIVE NatToChars(_)
NatToChars(n) ==
    IF n < 10 THEN <<Digit[n + 1]>>
    ELSE NatToChars(n \div 10) \o <<Digit[(n % 10) + 1]>>

\* Display of an i64
IntToChars(i) == IF i < 0 THEN <<"-">> \o NatToChars(-i) ELSE NatToChars(i)

\* the decimal digits of n/d (0 <= n < d), at most k of them
RECURSIVE FracChars(_, _, _)
FracChars(n, d, k) ==
    IF n = 0 \/ k = 0 THEN <<>>
    ELSE <<Digit[((n * 10) \div d) + 1]>> \o FracChars((n * 10) % d, d, k - 1)

\* Display of an f64
DoubleToChars(x) ==
    IF IsNaN(x) THEN <<"N", "a", "N">>
    ELSE IF IsInf(x)
         THEN (IF x.num < 0 THEN <<"-">> ELSE <<>>) \o <<"i", "n", "f">>
    ELSE IF IsZero(x) THEN (IF x.den < 0 THEN <<"-", "0">> ELSE <<"0">>)
    ELSE LET a == Abs(x.num)
             whole == (IF x.num < 0 THEN <<"-">> ELSE <<>>) \o NatToChars(a \div x.den)
         IN  IF a % x.den = 0 THEN whole
             ELSE whole \o <<".">> \o FracChars(a % x.den, x.den, 16)

\* Value::is_truthy: only nil and false are falsy
is_truthy(v) == ~(v.t = "Nil" \/ (v.t = "Bool" /\ v.b = FALSE))

\* Heap::alloc: a fresh handle for a new object
HeapAlloc(h, s) == [heap |-> Append(h, s), value |-> VObject(Len(h) + 1)]

\* Heap::is_string
HeapIsString(h, v) == v.t = "Object" /\ v.h \in DOMAIN h

\* Heap::type_name
HeapTypeName(h, v) ==
    CASE v.t = "Nil" -> "nil"
      [] v.t = "Bool" -> "bool"
      [] v.t = "Integer" -> "integer"
      [] v.t = "Double" -> "double"
      [] v.t = "Object" -> "string"

\* Heap::fmt
HeapFmt(h, v) ==
    CASE v.t = "Nil" -> <<"n", "i", "l">>
      [] v.t = "Bool" -> (IF v.b THEN <<"t", "r", "u", "e">> ELSE <<"f", "a", "l", "s", "e">>)
      [] v.t = "Integer" -> IntToChars(v.i)
      [] v.t = "Double" -> DoubleToChars(v)
      [] v.t = "Object" -> h[v.h]

\* Heap::eq: Some(b), or None for operands that cannot be compared
HeapEq(h, a, b) ==
    IF (a.t = "Object" /\ a.h \notin DOMAIN h) \/ (b.t = "Object" /\ b.h \notin DOMAIN h)
    THEN [some |-> FALSE]
    ELSE [some |-> TRUE,
          v |-> CASE a.t = "Nil" /\ b.t = "Nil" -> TRUE
                  [] a.t = "Bool" /\ b.t = "Bool" -> a.b = b.b
                  [] a.t = "Integer" /\ b.t = "Integer" -> a.i = b.i
                  [] a.t = "Double" /\ b.t = "Double" -> a.num = b.num /\ a.den = b.den
                  [] a.t = "Object" /\ b.t = "Object" -> h[a.h] = h[b.h]
                  [] OTHER -> FALSE]

\* the numeric value of an Integer or Double as a rational
AsDouble(v) == IF v.t = "Integer" THEN IntToDouble(v.i) ELSE [num |-> v.num, den |-> v.den]

\* a < b on f64 (false when either is NaN)
DLess(a, b) ==
    IF IsNaN(a) \/ IsNaN(b) THEN FALSE
    ELSE IF IsInf(a) \/ IsInf(b)
         THEN (IF IsInf(a) /\ IsInf(b) THEN a.num < b.num
               ELSE IF IsInf(a) THEN a.num < 0 ELSE b.num > 0)
    ELSE a.num * Abs(b.den) < b.num * Abs(a.den)

\* the printable ASCII characters, in code order (space is 32)
Alphabet ==
    <<" ", "!", "\"", "#", "$", "%", "&", "'", "(", ")", "*", "+",
      ",", "-", ".", "/", "0", "1", "2", "3", "4", "5", "6", "7",
      "8", "9", ":", ";", "<", "=", ">", "?", "@", "A", "B", "C",
      "D", "E", "F", "G", "H", "I", "J", "K", "L", "M", "N", "O",
      "P", "Q", "R", "S", "T", "U", "V", "W", "X", "Y", "Z", "[",
      "\\", "]", "^", "_", "a", "b", "c", "d", "e", "f", "g",
      "h", "i", "j", "k", "l", "m", "n", "o", "p", "q", "r", "s",
      "t", "u", "v", "w", "x", "y", "z", "{", "|", "}", "~">>

CharOrd(c) ==
    IF \E k \in DOMAIN Alphabet : Alphabet[k] = c
    THEN CHOOSE k \in DOMAIN Alphabet : Alphabet[k] = c
    ELSE Len(Alphabet) + 1

\* a < b on strings: lexicographic
RECURSIVE StrLess(_, _)
StrLess(a, b) ==
    IF b = <<>> THEN FALSE
    ELSE IF a = <<>> THEN TRUE
    ELSE IF Head(a) = Head(b) THEN StrLess(Tail(a), Tail(b))
    ELSE CharOrd(Head(a)) < CharOrd(Head(b))

\* Heap::lt: Some(a < b) for two numbers (promoted to f64 when mixed) or two
\* strings, None otherwise
HeapLt(h, a, b) ==
    IF a.t \in {"Integer", "Double"} /\ b.t \in {"Integer", "Double"}
    THEN [some |-> TRUE,
          v |-> IF a.t = "Integer" /\ b.t = "Integer" THEN a.i < b.i
                ELSE DLess(AsDouble(a), AsDouble(b))]
    ELSE IF HeapIsString(h, a) /\ HeapIsString(h, b)
         THEN [some |-> TRUE, v |-> StrLess(h[a.h], h[b.h])]
    ELSE [some |-> FALSE]

\* Heap::gt
HeapGt(h, a, b) == HeapLt(h, b, a)

\* Heap::value_into_constant: a heap string becomes an owned Constant::String
value_into_constant(h, v) == IF v.t = "Object" THEN CString(h[v.h]) ELSE v

\* Heap::constant_into_value: a string constant is materialised on the heap
constant_into_value(h, c) ==
    IF c.t = "String" THEN HeapAlloc(h, c.s) ELSE [heap |-> h, value |-> c]

(***************************************************************************)
(* The Chunk.                                                              *)
(***************************************************************************)
NewChunk == [data |-> <<>>, lines |-> <<>>, constants |-> <<>>]

\* std::u8::MAX, the largest constant index make_constant accepts
U8Max == 255

\* a write that records a line only when it differs from the last one recorded
WriteNewLinesOnly(c, byte, line) ==
    [c EXCEPT !.data = Append(@, byte),
              !.lines = IF @ # <<>> /\ @[Len(@)] = line THEN @ ELSE Append(@, line)]

\* Chunk::write (write_u8): one byte and its line
write(c, byte, line) ==
    [c EXCEPT !.data = Append(@, byte), !.lines = Append(@, line)]

\* Chunk::make_constant: append, return the new index, panic past the bound
make_constant(c, value) ==
    [chunk |-> [c EXCEPT !.constants = Append(@, value)],
     idx |-> Len(c.constants),
     panic |-> Len(c.constants) > U8Max]

\* Chunk::write_arg_u16: the opcode, then the operand low byte first
write_arg_u16(c, op, arg, line) ==
    write(write(write(c, op, line), decode_bytes(arg).low, line),
          decode_bytes(arg).high, line)

\* Chunk::read_short: the u16 whose low byte is at offset i
read_short(c, i) == encode_bytes(c.data[i + 1], c.data[i + 2])

\* Chunk::write_jump: the opcode and a two-byte placeholder, whose offset is returned
write_jump(c, op, line) ==
    [chunk |-> write(write(write(c, op, line), 0, line), 0, line),
     offset |-> Len(c.data) + 1]

\* Chunk::patch_jump: the distance from the byte after the operand to the end
patch_jump(c, offset) ==
    LET jump == Len(c.data) - (offset + 2)
    IN  [c EXCEPT !.data[offset + 1] = decode_bytes(jump).low,
                  !.data[offset + 2] = decode_bytes(jump).high]

\* Chunk::get_line_from_index, for an index inside the line map
get_line_from_index(c, idx) == c.lines[idx + 1]

(***************************************************************************)
(* The AST.  A Token is [kind, lexeme, line], an Integer token carrying i  *)
(* and a Double token num and den.                                         *)
(***************************************************************************)
\* the lexeme of a string literal is its source text, the quotes included
Quote(s) == <<"\"">> \o s \o <<"\"">>

\* the text between the quotes of a string lexeme
Unquote(lexeme) == SubSeq(lexeme, 2, Len(lexeme) - 1)

Tok(kind, lexeme, line) == [kind |-> kind, lexeme |-> lexeme, line |-> line]
IntTok(i, line) == [kind |-> "Integer", lexeme |-> IntToChars(i), line |-> line, i |-> i]
DblTok(n, d, line) ==
    [kind |-> "Double", lexeme |-> DoubleToChars([num |-> n, den |-> d]), line |-> line,
     num |-> n, den |-> d]

Atom(tok) == [e |-> "Atom", token |-> tok]
Paren(value) == [e |-> "Paren", value |-> value]
Variable(name) == [e |-> "Variable", name |-> name]
Unary(op, rhs) == [e |-> "Unary", op |-> op, rhs |-> rhs]
Binary(lhs, op, rhs) == [e |-> "Binary", lhs |-> lhs, op |-> op, rhs |-> rhs]
Logical(lhs, op, rhs) == [e |-> "Logical", lhs |-> lhs, op |-> op, rhs |-> rhs]

ExprStmt(expr) == [s |-> "Expr", expr |-> expr]
Assignment(name, op, value) == [s |-> "Assignment", name |-> name, op |-> op, value |-> value]
Block(end, body) == [s |-> "Block", end |-> end, body |-> body]
If(cond, do_, then, end) ==
    [s |-> "If", cond |-> cond, do_ |-> do_, then |-> then, has_else |-> FALSE,
     else_ |-> <<>>, end |-> end]
IfElse(cond, do_, then, else_, end) ==
    [s |-> "If", cond |-> cond, do_ |-> do_, then |-> then, has_else |-> TRUE,
     else_ |-> else_, end |-> end]
Retn(keyword) == [s |-> "Retn", keyword |-> keyword, has_value |-> FALSE]
RetnValue(keyword, value) ==
    [s |-> "Retn", keyword |-> keyword, has_value |-> TRUE, value |-> value]
AssertStmt(keyword, value) == [s |-> "Assert", keyword |-> keyword, value |-> value]

\* the expressions and statements the Emitter does not compile yet
Call(callee, paren, args) == [e |-> "Call", callee |-> callee, paren |-> paren, args |-> args]
New(name, args) == [e |-> "New", name |-> name, args |-> args]
Get(object, name) == [e |-> "Get", object |-> object, name |-> name]
SetField(object, name, value) ==
    [e |-> "Set", object |-> object, name |-> name, value |-> value]
Index(rb, object, idx) == [e |-> "Index", rb |-> rb, object |-> object, idx |-> idx]
FuncExpr(name, args, body) == [e |-> "Func", name |-> name, args |-> args, body |-> body]
While(cond, body) == [s |-> "While", cond |-> cond, body |-> body]
For(name, iter, body) == [s |-> "For", name |-> name, iter |-> iter, body |-> body]
Func(name, args, body) == [s |-> "Func", name |-> name, args |-> args, body |-> body]
Data(name, methods, fields) ==
    [s |-> "Data", name |-> name, methods |-> methods, fields |-> fields]

(***************************************************************************)
(* The Emitter.  A visit returns the emitter it leaves behind and the      *)
(* error it returned, if any: what was written before a `?` returned early *)
(* stays written.                                                          *)
(***************************************************************************)
NoErr == [kind |-> "none"]
Panic(what) == [kind |-> "panic", what |-> what]
Done(e) == [em |-> e, err |-> NoErr]
Fail(e, err) == [em |-> e, err |-> err]

NewEmitter ==
    [chunk |-> NewChunk, strings |-> <<>>, identifiers |-> <<>>,
     scope_depth |-> 0, locals |-> <<>>]

\* the emitter after writing one byte / an opcode with its operand
Emit(e, byte, line) == [e EXCEPT !.chunk = write(@, byte, line)]
EmitArg(e, op, arg, line) == [e EXCEPT !.chunk = write_arg_u16(@, op, arg, line)]

\* the positions (1-based) of the locals called name
LocalsNamed(e, name) == {i \in DOMAIN e.locals : e.locals[i].name = name}

Max(S) == CHOOSE x \in S : \A y \in S : y <= x

\* Emitter::get_local_slot: the index of the topmost local called name, or -1 (None)
get_local_slot(e, name) ==
    IF LocalsNamed(e, name) = {} THEN -1 ELSE Max(LocalsNamed(e, name)) - 1

\* Emitter::get_local_depth: the depth of the topmost local called name, or -1 (None)
get_local_depth(e, name) ==
    IF LocalsNamed(e, name) = {} THEN -1 ELSE e.locals[Max(LocalsNamed(e, name))].depth

\* Emitter::make_ident
make_ident(e, name) ==
    IF name \in DOMAIN e.identifiers
    THEN [em |-> e, idx |-> e.identifiers[name], panic |-> FALSE]
    ELSE LET m == make_constant(e.chunk, CString(name))
         IN  IF m.panic
             THEN [em |-> [e EXCEPT !.chunk = m.chunk], idx |-> m.idx, panic |-> TRUE]
             ELSE [em |-> [e EXCEPT !.chunk = m.chunk,
                                    !.identifiers = (name :> m.idx) @@ @],
                   idx |-> m.idx, panic |-> FALSE]

\* Emitter::get_ident: Ok(index), or UndefinedVariable on the name's line
get_ident(e, name) ==
    IF name.lexeme \in DOMAIN e.identifiers
    THEN [ok |-> TRUE, idx |-> e.identifiers[name.lexeme]]
    ELSE [ok |-> FALSE,
          err |-> [kind |-> "UndefinedVariable", name |-> name.lexeme, line |-> name.line]]

\* Constant::try_from(Token)
ConstantTryFrom(token) ==
    CASE token.kind = "String" -> [ok |-> TRUE, c |-> CString(Unquote(token.lexeme))]
      [] token.kind = "Integer" -> [ok |-> TRUE, c |-> CInteger(token.i)]
      [] token.kind = "Double" -> [ok |-> TRUE, c |-> CDouble(token.num, token.den)]
      [] token.kind = "True" -> [ok |-> TRUE, c |-> CBool(TRUE)]
      [] token.kind = "False" -> [ok |-> TRUE, c |-> CBool(FALSE)]
      [] token.kind = "Nil" -> [ok |-> TRUE, c |-> CNil]
      [] OTHER -> [ok |-> FALSE]

\* Emitter::visit_atom
visit_atom(e, token) ==
    IF token.kind = "String" /\ token.lexeme \in DOMAIN e.strings
    THEN Done(EmitArg(e, Op.Constant, e.strings[token.lexeme], token.line))
    ELSE IF token.kind = "String"
    THEN LET c == ConstantTryFrom(token)
             m == make_constant(e.chunk, c.c)
             e1 == [e EXCEPT !.chunk = m.chunk]
             e2 == [e1 EXCEPT !.strings = (token.lexeme :> m.idx) @@ @]
         IN  IF ~c.ok THEN Fail(e, [kind |-> "InvalidString", line |-> token.line])
             ELSE IF m.panic THEN Fail(e1, Panic("make_constant"))
             ELSE Done(EmitArg(e2, Op.Constant, m.idx, token.line))
    ELSE IF token.kind = "Nil" THEN Done(Emit(e, Op.Nil, token.line))
    ELSE IF token.kind = "True" THEN Done(Emit(e, Op.True, token.line))
    ELSE IF token.kind = "False" THEN Done(Emit(e, Op.False, token.line))
    ELSE LET c == ConstantTryFrom(token)
             m == make_constant(e.chunk, c.c)
             e1 == [e EXCEPT !.chunk = m.chunk]
         IN  IF ~c.ok THEN Fail(e, Panic("unwrap"))
             ELSE IF m.panic THEN Fail(e1, Panic("make_constant"))
             ELSE Done(EmitArg(e1, Op.Constant, m.idx, token.line))

\* Emitter::visit_variable
visit_variable(e, name) ==
    IF get_local_slot(e, name.lexeme) # -1
    THEN Done(EmitArg(e, Op.GetLocal, get_local_slot(e, name.lexeme), name.line))
    ELSE IF get_ident(e, name).ok
         THEN Done(EmitArg(e, Op.GetGlobal, get_ident(e, name).idx, name.line))
         ELSE Fail(e, get_ident(e, name).err)

\* the opcode Emitter::visit_unary writes after the operand
UnaryOpcodes(kind) ==
    CASE kind = "Not" -> <<Op.Not>>
      [] kind = "Minus" -> <<Op.Negate>>
      [] OTHER -> <<>>

\* the opcodes Emitter::visit_binary writes after the operands
BinaryOpcodes(kind) ==
    CASE kind = "Plus" -> <<Op.Add>>
      [] kind = "Minus" -> <<Op.Subtract>>
      [] kind = "Divide" -> <<Op.Divide>>
      [] kind = "Multiply" -> <<Op.Multiply>>
      [] kind = "Equal" -> <<Op.Equal>>
      [] kind = "NotEqual" -> <<Op.Equal, Op.Not>>
      [] kind = "Greater" -> <<Op.Greater>>
      [] kind = "GreaterEqual" -> <<Op.GreaterEqual>>
      [] kind = "Less" -> <<Op.Less>>
      [] kind = "LessEqual" -> <<Op.LessEqual>>
      [] kind = "Modulo" -> <<Op.Modulo>>
      [] OTHER -> <<>>

\* write the opcodes ops on the operator's line; no opcode is unreachable!()
EmitOps(e, ops, line) ==
    IF ops = <<>> THEN Fail(e, Panic("unreachable"))
    ELSE IF Len(ops) = 1 THEN Done(Emit(e, ops[1], line))
    ELSE Done(Emit(Emit(e, ops[1], line), ops[2], line))

\* a block exit that discards no local
KeepLocals(e, line) == e

\* the block-exit loop of Emitter::visit_block: one Pop per local deeper than
\* the scope being returned to
RECURSIVE PopLocals(_, _)
PopLocals(e, line) ==
    IF e.locals # <<>> /\ Last(e.locals).depth > e.scope_depth
    THEN PopLocals([Emit(e, Op.Pop, line) EXCEPT !.locals = Front(@)], line)
    ELSE e

RECURSIVE VisitExpr(_, _)
RECURSIVE VisitStmt(_, _)
RECURSIVE VisitStmts(_, _, _)

\* Emitter::visit_unary
visit_unary(e, op, rhs) ==
    LET r == VisitExpr(e, rhs)
    IN  IF r.err # NoErr THEN r ELSE EmitOps(r.em, UnaryOpcodes(op.kind), op.line)

\* Emitter::visit_binary
visit_binary(e, lhs, op, rhs) ==
    LET l == VisitExpr(e, lhs)
        r == VisitExpr(l.em, rhs)
    IN  IF l.err # NoErr THEN l
        ELSE IF r.err # NoErr THEN r
        ELSE EmitOps(r.em, BinaryOpcodes(op.kind), op.line)

\* Emitter::visit_logical: both operands, and no opcode
visit_logical(e, lhs, rhs) ==
    LET l == VisitExpr(e, lhs)
    IN  IF l.err # NoErr THEN l ELSE VisitExpr(l.em, rhs)

\* ExprAccept::accept
VisitExpr(e, x) ==
    CASE x.e = "Atom" -> visit_atom(e, x.token)
      [] x.e = "Paren" -> VisitExpr(e, x.value)
      [] x.e = "Variable" -> visit_variable(e, x.name)
      [] x.e = "Unary" -> visit_unary(e, x.op, x.rhs)
      [] x.e = "Binary" -> visit_binary(e, x.lhs, x.op, x.rhs)
      [] x.e = "Logical" -> visit_logical(e, x.lhs, x.rhs)
      [] x.e \in {"Call", "New", "Get", "Set", "Index", "Func"} -> Fail(e, Panic("todo"))

\* Emitter::visit_expr: the expression, then Pop (on line 1)
visit_expr(e, expr) ==
    LET r == VisitExpr(e, expr)
    IN  IF r.err # NoErr THEN r ELSE Done(Emit(r.em, Op.Pop, 1))

\* Emitter::visit_block
visit_block(e, end, body) ==
    LET r == VisitStmts([e EXCEPT !.scope_depth = @ + 1], body, 1)
    IN  IF r.err # NoErr THEN r
        ELSE Done(PopLocals([r.em EXCEPT !.scope_depth = @ - 1], end.line))

\* the `:=` branch of Emitter::visit_assignment inside a block
DeclareLocal(e, name) ==
    LET depth == get_local_depth(e, name.lexeme)
        pushed == [e EXCEPT !.locals = Append(@, [name |-> name.lexeme, depth |-> e.scope_depth])]
    IN  IF depth = -1 THEN Done(pushed)
        ELSE IF depth # e.scope_depth THEN Done(pushed)
        ELSE IF depth - 1 >= Len(e.locals) THEN Fail(e, Panic("index out of bounds"))
        ELSE Fail(e, [kind |-> "SyntaxError", line |-> name.line,
                      msg |-> "cannot shadow local variable",
                      name |-> e.locals[depth].name])

\* the branches of Emitter::visit_assignment after the value is compiled
AssignTarget(e, name, op) ==
    IF e.scope_depth > 0
    THEN (IF op.kind = "Assign"
          THEN (IF get_local_slot(e, name.lexeme) # -1
                THEN Done(EmitArg(e, Op.SetLocal, get_local_slot(e, name.lexeme), op.line))
                ELSE IF get_ident(e, name).ok
                THEN Done(EmitArg(e, Op.SetGlobal, get_ident(e, name).idx, name.line))
                ELSE Fail(e, get_ident(e, name).err))
          ELSE IF op.kind = "Declare" THEN DeclareLocal(e, name)
          ELSE Done(e))
    ELSE IF op.kind = "Assign"
    THEN (IF get_ident(e, name).ok
          THEN Done(EmitArg(e, Op.SetGlobal, get_ident(e, name).idx, name.line))
          ELSE Fail(e, get_ident(e, name).err))
    ELSE IF op.kind = "Declare"
    THEN LET m == make_ident(e, name.lexeme)
         IN  IF m.panic THEN Fail(m.em, Panic("make_constant"))
             ELSE Done(EmitArg(m.em, Op.DeclareGlobal, m.idx, name.line))
    ELSE Done(e)

\* Emitter::visit_assignment
visit_assignment(e, name, op, value) ==
    LET r == VisitExpr(e, value)
    IN  IF r.err # NoErr THEN r ELSE AssignTarget(r.em, name, op)

\* Emitter::visit_if
visit_if(e, s) ==
    LET c == VisitExpr(e, s.cond)
        cond_false == write_jump(c.em.chunk, Op.JumpFalse, s.do_.line)
        e1 == Emit([c.em EXCEPT !.chunk = cond_false.chunk], Op.Pop, s.do_.line)
        t == visit_block(e1, s.end, s.then)
        cond_true == write_jump(t.em.chunk, Op.Jump, s.do_.line)
        e2 == [t.em EXCEPT !.chunk = patch_jump(cond_true.chunk, cond_false.offset)]
        b == IF s.has_else THEN visit_block(e2, s.end, s.else_) ELSE Done(e2)
    IN  IF c.err # NoErr THEN c
        ELSE IF t.err # NoErr THEN t
        ELSE IF b.err # NoErr THEN b
        ELSE Done([b.em EXCEPT !.chunk = patch_jump(@, cond_true.offset)])

\* Emitter::visit_retn
visit_retn(e, s) ==
    LET r == IF s.has_value THEN VisitExpr(e, s.value) ELSE Done(e)
    IN  IF r.err # NoErr THEN r ELSE Done(Emit(r.em, Op.Return, s.keyword.line))

\* Emitter::visit_assert
visit_assert(e, keyword, value) ==
    LET r == VisitExpr(e, value)
    IN  IF r.err # NoErr THEN r ELSE Done(Emit(r.em, Op.Assert, keyword.line))

\* StmtAccept::accept
VisitStmt(e, s) ==
    CASE s.s = "Expr" -> visit_expr(e, s.expr)
      [] s.s = "Assignment" -> visit_assignment(e, s.name, s.op, s.value)
      [] s.s = "Block" -> visit_block(e, s.end, s.body)
      [] s.s = "If" -> visit_if(e, s)
      [] s.s = "Retn" -> visit_retn(e, s)
      [] s.s = "Assert" -> visit_assert(e, s.keyword, s.value)
      [] s.s \in {"While", "For", "Func", "Data"} -> Fail(e, Panic("todo"))

\* the statements of a body in order, stopping at the first error
VisitStmts(e, body, i) ==
    IF i > Len(body) THEN Done(e)
    ELSE LET r == VisitStmt(e, body[i])
         IN  IF r.err # NoErr THEN r ELSE VisitStmts(r.em, body, i + 1)

(***************************************************************************)
(* The state after construction: an AST to compile, a fresh Emitter and a  *)
(* fresh Machine.                                                          *)
(***************************************************************************)
NoResult == [kind |-> "none"]
PanicResult == [kind |-> "panic"]
OkResult(c) == [kind |-> "ok", value |-> c]
ErrResult(e) == [kind |-> "err", err |-> e]

\* the opcode byte at ip
inst == chunk.data[ip + 1]

Fetching(op) == phase = "run" /\ ip < Len(chunk.data) /\ inst = op

\* the record of the step being taken: the opcode and the Machine before it
Exec(name) == [op |-> name, ip |-> ip, stack |-> stack]

\* the loop goes on to the next fetch
Cont(name, new_ip, new_stack, new_heap) ==
    /\ phase' = "run"
    /\ ip' = new_ip
    /\ stack' = new_stack
    /\ heap' = new_heap
    /\ result' = result
    /\ last' = Exec(name)
    /\ UNCHANGED <<scanner, program, next_stmt, em, errs, chunk>>

\* a loop that records the result and goes on to the next fetch
StopLater(name, res, new_ip, new_stack) ==
    /\ phase' = "run"
    /\ ip' = new_ip
    /\ stack' = new_stack
    /\ heap' = heap
    /\ result' = res
    /\ last' = Exec(name)
    /\ UNCHANGED <<scanner, program, next_stmt, em, errs, chunk>>

\* interpret returns (or the process aborts)
Stop(name, res, new_ip, new_stack) ==
    /\ phase' = "done"
    /\ ip' = new_ip
    /\ stack' = new_stack
    /\ heap' = heap
    /\ result' = res
    /\ last' = Exec(name)
    /\ UNCHANGED <<scanner, program, next_stmt, em, errs, chunk>>

\* the error of Machine::pop on an empty stack, self.ip being cur: the line
\* is read at cur, which is past the line map after the chunk's last byte
pop(cur) ==
    IF cur < Len(chunk.lines)
    THEN ErrResult([kind |-> "StackUnderflow", op |-> OpName[chunk.data[cur]],
                    line |-> get_line_from_index(chunk, cur)])
    ELSE PanicResult

\* an error result on the line of offset idx; indexing past the line map panics
ErrAt(idx, e) ==
    IF idx < Len(chunk.lines)
    THEN ErrResult(e @@ [line |-> get_line_from_index(chunk, idx)])
    ELSE PanicResult

\* the two operand bytes at offset cur are inside the chunk; read_short
\* indexes the data, so it panics when they are not
HasOperand(cur) == cur + 2 <= Len(chunk.data)

\* Machine::peek_constant: the constant at the operand under ip; some is FALSE
\* where the code panics, in read_short or in the unwrap of constants.get
peek_constant(cur) ==
    IF HasOperand(cur) /\ read_short(chunk, cur) < Len(chunk.constants)
    THEN [some |-> TRUE, c |-> chunk.constants[read_short(chunk, cur) + 1]]
    ELSE [some |-> FALSE]

IncorrectType(exp, got, op) ==
    [kind |-> "IncorrectType", exp |-> exp, got |-> got, op |-> op]

(***************************************************************************)
(* Machine::interpret, one action per arm of the opcode match.  The fetch  *)
(* has incremented self.ip before the arm runs, hence ip + 1 below.        *)
(***************************************************************************)
\* Opcode::Pop
ExecPop ==
    /\ Fetching(Op.Pop)
    /\ UNCHANGED <<globals, stdout>>
    /\ IF stack = <<>> THEN Stop("Pop", pop(ip + 1), ip + 1, stack)
       ELSE IF ip + 1 = Len(chunk.data)
       THEN Stop("Pop", OkResult(value_into_constant(heap, Last(stack))), ip + 1, Front(stack))
       ELSE Cont("Pop", ip + 1, Front(stack), heap)

\* Opcode::Return
ExecReturn ==
    /\ Fetching(Op.Return)
    /\ UNCHANGED globals
    /\ IF stack = <<>>
       THEN Stop("Return", pop(ip + 1), ip + 1, stack) /\ UNCHANGED stdout
       ELSE /\ Cont("Return", ip + 1, Front(stack), heap)
            /\ stdout' = Append(stdout, HeapFmt(heap, Last(stack)))

\* a Constant that skips one operand byte instead of two
ExecConstantShort ==
    /\ Fetching(Op.Constant)
    /\ UNCHANGED <<globals, stdout>>
    /\ IF peek_constant(ip + 1).some
       THEN LET v == constant_into_value(heap, peek_constant(ip + 1).c)
            IN  Cont("Constant", ip + 2, Append(stack, v.value), v.heap)
       ELSE Stop("Constant", PanicResult, ip + 1, stack)

\* Opcode::Constant
ExecConstant ==
    /\ Fetching(Op.Constant)
    /\ UNCHANGED <<globals, stdout>>
    /\ IF peek_constant(ip + 1).some
       THEN LET v == constant_into_value(heap, peek_constant(ip + 1).c)
            IN  Cont("Constant", ip + 3, Append(stack, v.value), v.heap)
       ELSE Stop("Constant", PanicResult, ip + 1, stack)

\* Opcode::Nil
ExecNil ==
    /\ Fetching(Op.Nil)
    /\ UNCHANGED <<globals, stdout>>
    /\ Cont("Nil", ip + 1, Append(stack, VNil), heap)

\* Opcode::True
ExecTrue ==
    /\ Fetching(Op.True)
    /\ UNCHANGED <<globals, stdout>>
    /\ Cont("True", ip + 1, Append(stack, VBool(TRUE)), heap)

\* Opcode::False
ExecFalse ==
    /\ Fetching(Op.False)
    /\ UNCHANGED <<globals, stdout>>
    /\ Cont("False", ip + 1, Append(stack, VBool(FALSE)), heap)

\* Opcode::Negate
ExecNegate ==
    /\ Fetching(Op.Negate)
    /\ UNCHANGED <<globals, stdout>>
    /\ IF stack = <<>> THEN Stop("Negate", pop(ip + 1), ip + 1, stack)
       ELSE LET v == Last(stack)
            IN  IF v.t = "Double"
                THEN Cont("Negate", ip + 1,
                          Append(Front(stack), [t |-> "Double"] @@ DNeg(AsDouble(v))), heap)
                ELSE IF v.t = "Integer"
                THEN \E o \in IntArith("-", 0, v.i) :
                        IF o.panic THEN Stop("Negate", PanicResult, ip + 1, Front(stack))
                        ELSE Cont("Negate", ip + 1, Append(Front(stack), VInteger(o.i)), heap)
                ELSE Stop("Negate",
                          ErrAt(ip, IncorrectType("integer or double", HeapTypeName(heap, v),
                                                  "Negate")),
                          ip + 1, Front(stack))

\* a Not for which Integer 0 and the empty string are falsy too
ExecNotZeroFalsy ==
    /\ Fetching(Op.Not)
    /\ UNCHANGED <<globals, stdout>>
    /\ IF stack = <<>> THEN Stop("Not", pop(ip + 1), ip + 1, stack)
       ELSE IF /\ is_truthy(Last(stack))
               /\ Last(stack) # VInteger(0)
               /\ ~(Last(stack).t = "Object" /\ heap[Last(stack).h] = <<>>)
       THEN Cont("Not", ip + 1, Append(Front(stack), VBool(FALSE)), heap)
       ELSE Cont("Not", ip + 1, Append(Front(stack), VBool(TRUE)), heap)

\* Opcode::Not
ExecNot ==
    /\ Fetching(Op.Not)
    /\ UNCHANGED <<globals, stdout>>
    /\ IF stack = <<>> THEN Stop("Not", pop(ip + 1), ip + 1, stack)
       ELSE IF is_truthy(Last(stack))
       THEN Cont("Not", ip + 1, Append(Front(stack), VBool(FALSE)), heap)
       ELSE Cont("Not", ip + 1, Append(Front(stack), VBool(TRUE)), heap)

\* bin_op! with the operands taken in the order they are popped: rhs op lhs
BinOpNumericSwapped(op, lhs, rhs) ==
    IF lhs.t = "Integer" /\ rhs.t = "Integer"
    THEN {IF o.panic THEN o ELSE [panic |-> FALSE, value |-> VInteger(o.i)] :
             o \in IntArith(op, rhs.i, lhs.i)}
    ELSE {[panic |-> FALSE,
           value |-> [t |-> "Double"] @@ DArith(op, AsDouble(rhs), AsDouble(lhs))]}

\* the value bin_op! pushes for numeric operands: a set, as an i64 operation
\* that overflows panics or wraps with the build
BinOpNumeric(op, lhs, rhs) ==
    IF lhs.t = "Integer" /\ rhs.t = "Integer"
    THEN {IF o.panic THEN o ELSE [panic |-> FALSE, value |-> VInteger(o.i)] :
             o \in IntArith(op, lhs.i, rhs.i)}
    ELSE {[panic |-> FALSE,
           value |-> [t |-> "Double"] @@ DArith(op, AsDouble(lhs), AsDouble(rhs))]}

\* a concatenation that puts the right operand first
ConcatSwapped(h, lhs, rhs) == HeapFmt(h, rhs) \o HeapFmt(h, lhs)

\* format!("{}{}", fmt(lhs), fmt(rhs)), the text of a concatenation
Concat(h, lhs, rhs) == HeapFmt(h, lhs) \o HeapFmt(h, rhs)

\* the `got` text of the IncorrectType bin_op! reports
BinOpGot(op, lhs, rhs) ==
    HeapTypeName(heap, lhs) \o " " \o op \o " " \o HeapTypeName(heap, rhs)

\* macro bin_op!(opcode, op, concat): name is the arm, opcode the one reported
bin_op(name, opcode, op, concat) ==
    /\ UNCHANGED <<globals, stdout>>
    /\ IF stack = <<>> THEN Stop(name, pop(ip + 1), ip + 1, stack)
       ELSE IF Len(stack) = 1 THEN Stop(name, pop(ip + 1), ip + 1, Front(stack))
       ELSE LET rhs == Last(stack)
                lhs == Last(Front(stack))
                rest == Front(Front(stack))
            IN  IF lhs.t \in {"Integer", "Double"} /\ rhs.t \in {"Integer", "Double"}
                THEN \E o \in BinOpNumeric(op, lhs, rhs) :
                        IF o.panic THEN Stop(name, PanicResult, ip + 1, rest)
                        ELSE Cont(name, ip + 1, Append(rest, o.value), heap)
                ELSE IF lhs.t \notin {"Integer", "Double"} /\ concat /\ HeapIsString(heap, lhs)
                THEN LET a == HeapAlloc(heap, Concat(heap, lhs, rhs))
                     IN  Cont(name, ip + 1, Append(rest, a.value), a.heap)
                ELSE Stop(name,
                          ErrAt(ip + 1, IncorrectType("integer or double",
                                                      BinOpGot(op, lhs, rhs), opcode)),
                          ip + 1, rest)

\* Opcode::Add
ExecAdd == Fetching(Op.Add) /\ bin_op("Add", "Add", "+", TRUE)

\* Opcode::Subtract
ExecSubtract == Fetching(Op.Subtract) /\ bin_op("Subtract", "Subtract", "-", FALSE)

\* Opcode::Multiply
ExecMultiply == Fetching(Op.Multiply) /\ bin_op("Multiply", "Multiply", "*", FALSE)

\* Opcode::Divide
ExecDivide == Fetching(Op.Divide) /\ bin_op("Divide", "Multiply", "/", FALSE)

\* Opcode::Modulo
ExecModulo == Fetching(Op.Modulo) /\ bin_op("Modulo", "Multiply", "%", FALSE)

\* an Equal that compares an integer and a double by numeric value
ExecEqualNumeric ==
    /\ Fetching(Op.Equal)
    /\ UNCHANGED <<globals, stdout>>
    /\ IF stack = <<>> THEN Stop("Equal", pop(ip + 1), ip + 1, stack)
       ELSE IF Len(stack) = 1 THEN Stop("Equal", pop(ip + 1), ip + 1, Front(stack))
       ELSE LET a == Last(stack)
                b == Last(Front(stack))
                rest == Front(Front(stack))
            IN  IF a.t \in {"Integer", "Double"} /\ b.t \in {"Integer", "Double"}
                THEN Cont("Equal", ip + 1, Append(rest, VBool(AsDouble(a) = AsDouble(b))), heap)
                ELSE IF HeapEq(heap, a, b).some
                THEN Cont("Equal", ip + 1, Append(rest, VBool(HeapEq(heap, a, b).v)), heap)
                ELSE Stop("Equal",
                          ErrAt(ip, IncorrectType(HeapTypeName(heap, a),
                                                  HeapTypeName(heap, b), "Equal")),
                          ip + 1, rest)

\* Opcode::Equal
ExecEqual ==
    /\ Fetching(Op.Equal)
    /\ UNCHANGED <<globals, stdout>>
    /\ IF stack = <<>> THEN Stop("Equal", pop(ip + 1), ip + 1, stack)
       ELSE IF Len(stack) = 1 THEN Stop("Equal", pop(ip + 1), ip + 1, Front(stack))
       ELSE LET a == Last(stack)
                b == Last(Front(stack))
                rest == Front(Front(stack))
            IN  IF HeapEq(heap, a, b).some
                THEN Cont("Equal", ip + 1, Append(rest, VBool(HeapEq(heap, a, b).v)), heap)
                ELSE Stop("Equal",
                          ErrAt(ip, IncorrectType(HeapTypeName(heap, a),
                                                  HeapTypeName(heap, b), "Equal")),
                          ip + 1, rest)

\* the Option the heap answers for lhs > rhs (gt) or lhs < rhs
HeapCmp(gt, h, lhs, rhs) == IF gt THEN HeapGt(h, lhs, rhs) ELSE HeapLt(h, lhs, rhs)

\* the arms Greater, Less, GreaterEqual and LessEqual: the heap's answer for
\* (lhs, rhs), negated when negate
compare(name, gt, negate) ==
    /\ UNCHANGED <<globals, stdout>>
    /\ IF stack = <<>> THEN Stop(name, pop(ip + 1), ip + 1, stack)
       ELSE IF Len(stack) = 1 THEN Stop(name, pop(ip + 1), ip + 1, Front(stack))
       ELSE LET rhs == Last(stack)
                lhs == Last(Front(stack))
                rest == Front(Front(stack))
            IN  IF rhs.t = "Bool" \/ lhs.t = "Bool"
                THEN Stop(name, ErrAt(ip, IncorrectType("that isn't bool", "bool", name)),
                          ip + 1, rest)
                ELSE IF HeapCmp(gt, heap, lhs, rhs).some
                THEN Cont(name, ip + 1,
                          Append(rest, VBool(HeapCmp(gt, heap, lhs, rhs).v # negate)), heap)
                ELSE Stop(name,
                          ErrAt(ip, IncorrectType(HeapTypeName(heap, lhs),
                                                  HeapTypeName(heap, rhs), name)),
                          ip + 1, rest)

\* Opcode::Greater
ExecGreater == Fetching(Op.Greater) /\ compare("Greater", TRUE, FALSE)

\* Opcode::Less
ExecLess == Fetching(Op.Less) /\ compare("Less", FALSE, FALSE)

\* Opcode::GreaterEqual
ExecGreaterEqual == Fetching(Op.GreaterEqual) /\ compare("GreaterEqual", FALSE, TRUE)

\* Opcode::LessEqual
ExecLessEqual == Fetching(Op.LessEqual) /\ compare("LessEqual", TRUE, TRUE)

\* Opcode::GetLocal
ExecGetLocal ==
    /\ Fetching(Op.GetLocal)
    /\ UNCHANGED <<globals, stdout>>
    /\ IF ~HasOperand(ip + 1) THEN Stop("GetLocal", PanicResult, ip + 1, stack)
       ELSE LET slot == read_short(chunk, ip + 1)
            IN  IF slot < Len(stack)
                THEN Cont("GetLocal", ip + 3, Append(stack, stack[slot + 1]), heap)
                ELSE Stop("GetLocal", PanicResult, ip + 1, stack)

\* Opcode::SetLocal: the value is popped before the slot is indexed
ExecSetLocal ==
    /\ Fetching(Op.SetLocal)
    /\ UNCHANGED <<globals, stdout>>
    /\ IF ~HasOperand(ip + 1) THEN Stop("SetLocal", PanicResult, ip + 1, stack)
       ELSE LET slot == read_short(chunk, ip + 1)
            IN  IF stack = <<>> THEN Stop("SetLocal", pop(ip + 1), ip + 1, stack)
                ELSE IF slot < Len(stack) - 1
                THEN Cont("SetLocal", ip + 3,
                          [Front(stack) EXCEPT ![slot + 1] = Last(stack)], heap)
                ELSE Stop("SetLocal", PanicResult, ip + 1, Front(stack))

\* Opcode::GetGlobal
ExecGetGlobal ==
    /\ Fetching(Op.GetGlobal)
    /\ UNCHANGED <<globals, stdout>>
    /\ LET k == peek_constant(ip + 1)
       IN  IF ~k.some \/ k.c.t # "String" THEN Stop("GetGlobal", PanicResult, ip + 1, stack)
           ELSE IF k.c.s \in DOMAIN globals
           THEN Cont("GetGlobal", ip + 3, Append(stack, globals[k.c.s]), heap)
           ELSE Stop("GetGlobal",
                     ErrAt(ip, [kind |-> "UndefinedVariable", name |-> k.c.s]),
                     ip + 1, stack)

\* Opcode::SetGlobal: the insert happens before its result is examined
ExecSetGlobal ==
    /\ Fetching(Op.SetGlobal)
    /\ UNCHANGED stdout
    /\ LET k == peek_constant(ip + 1)
       IN  IF ~k.some
           THEN Stop("SetGlobal", PanicResult, ip + 1, stack) /\ UNCHANGED globals
           ELSE IF k.c.t # "String"
           THEN Cont("SetGlobal", ip + 1, stack, heap) /\ UNCHANGED globals
           ELSE IF stack = <<>>
           THEN Stop("SetGlobal", pop(ip + 1), ip + 1, stack) /\ UNCHANGED globals
           ELSE /\ globals' = (k.c.s :> Last(stack)) @@ globals
                /\ IF k.c.s \in DOMAIN globals
                   THEN Cont("SetGlobal", ip + 3, Front(stack), heap)
                   ELSE Stop("SetGlobal",
                             ErrAt(ip, [kind |-> "UndefinedVariable", name |-> k.c.s]),
                             ip + 1, Front(stack))

\* a DeclareGlobal that pops the value and stores nothing
ExecDeclareGlobalDrops ==
    /\ Fetching(Op.DeclareGlobal)
    /\ UNCHANGED <<globals, stdout>>
    /\ LET k == peek_constant(ip + 1)
       IN  IF ~k.some \/ k.c.t # "String"
           THEN Stop("DeclareGlobal", PanicResult, ip + 1, stack)
           ELSE IF stack = <<>>
           THEN Stop("DeclareGlobal", pop(ip + 1), ip + 1, stack)
           ELSE Cont("DeclareGlobal", ip + 3, Front(stack), heap)

\* a DeclareGlobal that keeps the value of a name already declared
ExecDeclareGlobalKeepsFirst ==
    /\ Fetching(Op.DeclareGlobal)
    /\ UNCHANGED stdout
    /\ LET k == peek_constant(ip + 1)
       IN  IF ~k.some \/ k.c.t # "String"
           THEN Stop("DeclareGlobal", PanicResult, ip + 1, stack) /\ UNCHANGED globals
           ELSE IF stack = <<>>
           THEN Stop("DeclareGlobal", pop(ip + 1), ip + 1, stack) /\ UNCHANGED globals
           ELSE /\ globals' = globals @@ (k.c.s :> Last(stack))
                /\ Cont("DeclareGlobal", ip + 3, Front(stack), heap)

\* Opcode::DeclareGlobal
ExecDeclareGlobal ==
    /\ Fetching(Op.DeclareGlobal)
    /\ UNCHANGED stdout
    /\ LET k == peek_constant(ip + 1)
       IN  IF ~k.some \/ k.c.t # "String"
           THEN Stop("DeclareGlobal", PanicResult, ip + 1, stack) /\ UNCHANGED globals
           ELSE IF stack = <<>>
           THEN Stop("DeclareGlobal", pop(ip + 1), ip + 1, stack) /\ UNCHANGED globals
           ELSE /\ globals' = (k.c.s :> Last(stack)) @@ globals
                /\ Cont("DeclareGlobal", ip + 3, Front(stack), heap)

\* an Assert that leaves the value it tested on the stack
ExecAssertKeepsValue ==
    /\ Fetching(Op.Assert)
    /\ UNCHANGED <<globals, stdout>>
    /\ IF stack = <<>> THEN Stop("Assert", pop(ip + 1), ip + 1, stack)
       ELSE IF ~is_truthy(Last(stack))
       THEN Stop("Assert", ErrAt(ip, [kind |-> "AssertFailed"]), ip + 1, stack)
       ELSE Cont("Assert", ip + 1, stack, heap)

\* Opcode::Assert
ExecAssert ==
    /\ Fetching(Op.Assert)
    /\ UNCHANGED <<globals, stdout>>
    /\ IF stack = <<>> THEN Stop("Assert", pop(ip + 1), ip + 1, stack)
       ELSE IF ~is_truthy(Last(stack))
       THEN Stop("Assert", ErrAt(ip, [kind |-> "AssertFailed"]), ip + 1, Front(stack))
       ELSE Cont("Assert", ip + 1, Front(stack), heap)

\* Opcode::Jump: relative to the byte after the operand
ExecJump ==
    /\ Fetching(Op.Jump)
    /\ UNCHANGED <<globals, stdout>>
    /\ IF ~HasOperand(ip + 1) THEN Stop("Jump", PanicResult, ip + 1, stack)
       ELSE Cont("Jump", ip + 3 + read_short(chunk, ip + 1), stack, heap)

\* Opcode::JumpFalse: consumes the condition, jumps when it is falsy
ExecJumpFalse ==
    /\ Fetching(Op.JumpFalse)
    /\ UNCHANGED <<globals, stdout>>
    /\ IF ~HasOperand(ip + 1) THEN Stop("JumpFalse", PanicResult, ip + 1, stack)
       ELSE IF stack = <<>> THEN Stop("JumpFalse", pop(ip + 1), ip + 1, stack)
       ELSE IF is_truthy(Last(stack))
       THEN Cont("JumpFalse", ip + 3, Front(stack), heap)
       ELSE Cont("JumpFalse", ip + 3 + read_short(chunk, ip + 1), Front(stack), heap)

\* `inst.into()` on a byte that is the number of no opcode
ExecNoOpcode ==
    /\ phase = "run"
    /\ ip < Len(chunk.data)
    /\ OpName[inst] = NoOpcode
    /\ UNCHANGED <<globals, stdout>>
    /\ Stop(NoOpcode, PanicResult, ip + 1, stack)

\* an end of the loop that ignores what is left on the stack
HaltReturnsNil ==
    /\ phase = "run"
    /\ ip >= Len(chunk.data)
    /\ UNCHANGED <<globals, stdout>>
    /\ Stop("Halt", OkResult(CNil), ip, stack)

\* the end of the loop: ip has reached the end of the chunk
Halt ==
    /\ phase = "run"
    /\ ip >= Len(chunk.data)
    /\ UNCHANGED <<globals, stdout>>
    /\ IF stack = <<>> THEN Stop("Halt", OkResult(CNil), ip, stack)
       ELSE Stop("Halt", OkResult(value_into_constant(heap, Last(stack))), ip, Front(stack))

(***************************************************************************)
(* Emitter::compile, one action per iteration of its loop and one for its  *)
(* return.                                                                 *)
(***************************************************************************)
CompileStmt ==
    /\ phase = "compile"
    /\ next_stmt < Len(program)
    /\ LET r == VisitStmt(em, program[next_stmt + 1])
       IN  /\ em' = r.em
           /\ next_stmt' = next_stmt + 1
           /\ IF r.err.kind = "panic"
              THEN phase' = "done" /\ result' = PanicResult /\ errs' = errs
              ELSE /\ phase' = phase
                   /\ result' = result
                   /\ errs' = IF r.err = NoErr THEN errs ELSE Append(errs, r.err)
    /\ last' = [op |-> "CompileStmt", scope_depth |-> em.scope_depth, locals |-> em.locals,
                em |-> em, err |-> VisitStmt(em, program[next_stmt + 1]).err]
    /\ UNCHANGED <<scanner, program, chunk, ip, globals, stack, heap, stdout>>

\* the chunk is moved out of the emitter when there is no error
CompileReturn ==
    /\ phase = "compile"
    /\ next_stmt = Len(program)
    /\ IF errs = <<>>
       THEN /\ chunk' = em.chunk
            /\ em' = [em EXCEPT !.chunk = NewChunk]
            /\ phase' = "run"
            /\ result' = result
       ELSE /\ phase' = "done"
            /\ result' = [kind |-> "errs", errs |-> errs]
            /\ UNCHANGED <<chunk, em>>
    /\ last' = [op |-> "CompileReturn"]
    /\ UNCHANGED <<scanner, program, next_stmt, errs, ip, globals, stack, heap, stdout>>

(***************************************************************************)
(* The programs explored.  A program is written one top-level statement    *)
(* per line, so every token of statement i is on line i.                   *)
(***************************************************************************)
Lexeme ==
    [Plus |-> <<"+">>, Minus |-> <<"-">>, Multiply |-> <<"*">>, Divide |-> <<"/">>,
     Modulo |-> <<"%">>, Equal |-> <<"=", "=">>, NotEqual |-> <<"!", "=">>,
     Greater |-> <<">">>, GreaterEqual |-> <<">", "=">>, Less |-> <<"<">>,
     LessEqual |-> <<"<", "=">>, Not |-> <<"!">>, LogicalAnd |-> <<"&", "&">>,
     LogicalOr |-> <<"|", "|">>, Assign |-> <<"=">>, Declare |-> <<":", "=">>,
     Nil |-> <<"n", "i", "l">>, True |-> <<"t", "r", "u", "e">>,
     False |-> <<"f", "a", "l", "s", "e">>, Do |-> <<"d", "o">>, End |-> <<"e", "n", "d">>,
     Retn |-> <<"r", "e", "t", "n">>]
    @@ ("Assert" :> <<"a", "s", "s", "e", "r", "t">>)

\* the token of a keyword or operator on line l
K(kind, l) == Tok(kind, Lexeme[kind], l)

Id(name, l) == Tok("Identifier", name, l)

StrLit(s, l) == Atom(Tok("String", Quote(s), l))

IntLit(i, l) == Atom(IntTok(i, l))

DblLit(n, d, l) == Atom(DblTok(n, d, l))

\* the literals: nil, the booleans, small and extreme integers, doubles, strings
Atoms(l) ==
    {Atom(K("Nil", l)), Atom(K("True", l)), Atom(K("False", l))}
    \cup {IntLit(i, l) : i \in 0 .. MaxLit} \cup {IntLit(IntMax, l)}
    \cup {DblLit(1, 1, l), DblLit(1, 2, l)}
    \cup {StrLit(<<>>, l), StrLit(<<"a">>, l), StrLit(<<"b">>, l)}

\* a few literals of each type
FewAtoms(l) ==
    {Atom(K("Nil", l)), IntLit(1, l), IntLit(2, l), IntLit(IntMax, l), DblLit(1, 2, l), StrLit(<<"a">>, l)}

ArithKinds == {"Plus", "Minus", "Multiply", "Divide", "Modulo"}

BinaryKinds ==
    ArithKinds \cup {"Equal", "NotEqual", "Greater", "GreaterEqual", "Less", "LessEqual"}

Var(name, l) == Variable(Id(name, l))

Decl(name, value, l) == Assignment(Id(name, l), K("Declare", l), value)

Set(name, value, l) == Assignment(Id(name, l), K("Assign", l), value)

\* `x op y`
BinaryPrograms ==
    {<<ExprStmt(Binary(x, K(k, 1), y))>> : x \in Atoms(1), y \in Atoms(1), k \in BinaryKinds}

\* `x && y`, `x || y`, `! x`, `- x`, `(x)`, `- - x`, `(- max - 1) op - 1`,
\* `- (- max - 1)`
OtherExprPrograms ==
    {<<ExprStmt(Logical(x, K(k, 1), y))>> :
        x \in FewAtoms(1), y \in FewAtoms(1), k \in {"LogicalAnd", "LogicalOr"}}
    \cup {<<ExprStmt(Unary(K(k, 1), x))>> : x \in Atoms(1), k \in {"Not", "Minus"}}
    \cup {<<ExprStmt(Paren(x))>> : x \in FewAtoms(1)}
    \cup {<<ExprStmt(Unary(K("Minus", 1), Unary(K("Minus", 1), x)))>> : x \in FewAtoms(1)}
    \cup {<<ExprStmt(Binary(Binary(Unary(K("Minus", 1), IntLit(IntMax, 1)), K("Minus", 1),
                                   IntLit(1, 1)),
                            K(k, 1), Unary(K("Minus", 1), IntLit(1, 1))))>> :
             k \in {"Divide", "Modulo", "Multiply"}}
    \cup {<<ExprStmt(Unary(K("Minus", 1),
                           Binary(Unary(K("Minus", 1), IntLit(IntMax, 1)), K("Minus", 1),
                                  IntLit(1, 1))))>>}

\* `a := x`, `a = a op y`, `a`;  `a := x`, `a := y`, `a`;  `a := x`, `b = y`;
\* `a := x`, `a = y`, `a`;  `a = x`;  `s := x`, `s + y`;  `a := x`, `b`
GlobalPrograms ==
    {<<Decl(<<"a">>, x, 1),
       Set(<<"a">>, Binary(Var(<<"a">>, 2), K(k, 2), y), 2),
       ExprStmt(Var(<<"a">>, 3))>> :
        x \in FewAtoms(1), y \in FewAtoms(2), k \in ArithKinds}
    \cup {<<Decl(<<"a">>, x, 1), Decl(<<"a">>, y, 2), ExprStmt(Var(<<"a">>, 3))>> :
             x \in FewAtoms(1), y \in FewAtoms(2)}
    \cup {<<Decl(<<"a">>, x, 1), Set(<<"b">>, y, 2)>> : x \in FewAtoms(1), y \in FewAtoms(2)}
    \cup {<<Decl(<<"a">>, x, 1), Set(<<"a">>, y, 2), ExprStmt(Var(<<"a">>, 3))>> :
             x \in FewAtoms(1), y \in FewAtoms(2)}
    \cup {<<Set(<<"a">>, x, 1)>> : x \in FewAtoms(1)}
    \cup {<<Decl(<<"s">>, x, 1), ExprStmt(Binary(Var(<<"s">>, 2), K("Plus", 2), y))>> :
             x \in {StrLit(<<"f", "o", "o">>, 1), StrLit(<<>>, 1)},
             y \in Atoms(2) \cup {StrLit(<<"b", "a", "r">>, 2)}}
    \cup {<<Decl(<<"a">>, x, 1), ExprStmt(Var(<<"b">>, 2))>> : x \in FewAtoms(1)}

\* `assert x`;  `a := 1`, `assert x == y`;  `assert x && y`;  `retn`;  `retn x`;
\* `retn`, `x`;  `retn x`, `y`;  `retn x`, `retn y`;  `retn x`, `retn`
AssertRetnPrograms ==
    {<<AssertStmt(K("Assert", 1), x)>> : x \in Atoms(1)}
    \cup {<<Decl(<<"a">>, IntLit(1, 1), 1),
            AssertStmt(K("Assert", 2), Binary(x, K("Equal", 2), y))>> :
             x \in FewAtoms(2), y \in FewAtoms(2)}
    \cup {<<AssertStmt(K("Assert", 1), Binary(x, K("Equal", 1), y))>> :
             x \in {IntLit(1, 1)}, y \in {IntLit(1, 1), IntLit(2, 1)}}
    \cup {<<AssertStmt(K("Assert", 1), Logical(x, K("LogicalAnd", 1), y))>> :
             x \in FewAtoms(1), y \in FewAtoms(1)}
    \cup {<<Retn(K("Retn", 1))>>}
    \cup {<<RetnValue(K("Retn", 1), x)>> : x \in Atoms(1)}
    \cup {<<Retn(K("Retn", 1)), ExprStmt(x)>> : x \in FewAtoms(2)}
    \cup {<<RetnValue(K("Retn", 1), x), ExprStmt(y)>> : x \in FewAtoms(1), y \in FewAtoms(2)}
    \cup {<<RetnValue(K("Retn", 1), x), RetnValue(K("Retn", 2), y)>> :
             x \in FewAtoms(1), y \in FewAtoms(2)}
    \cup {<<RetnValue(K("Retn", 1), x), Retn(K("Retn", 2))>> : x \in FewAtoms(1)}

\* the sequences over S of length lo .. hi (hi <= 2)
SeqsUpTo2(S, lo, hi) ==
    (IF lo <= 0 THEN {<<>>} ELSE {})
    \cup (IF lo <= 1 /\ 1 <= hi THEN {<<s>> : s \in S} ELSE {})
    \cup (IF 2 <= hi THEN {<<s, t>> : s \in S, t \in S} ELSE {})

\* statements of a block: `x := 1`, `x := 2`, `x = 3`, `x`, `y = 2`
BlockStmts(l) ==
    {Decl(<<"x">>, IntLit(1, l), l), Decl(<<"x">>, IntLit(2, l), l),
     Set(<<"x">>, IntLit(3, l), l), ExprStmt(Var(<<"x">>, l)),
     Set(<<"y">>, IntLit(2, l), l)}

\* `do ... end` nested in a block, of one or two of `x := 2`, `x`, `y = 2`
InnerBlocks(l) ==
    {Block(K("End", l), b) :
        b \in SeqsUpTo2({Decl(<<"x">>, IntLit(2, l), l), ExprStmt(Var(<<"x">>, l)),
                         Set(<<"y">>, IntLit(2, l), l)}, 1, 2)}

\* what may follow a block on the next line: `x`, `x = 3`, `x := 3`
Followers(l) ==
    {<<>>, <<ExprStmt(Var(<<"x">>, l))>>, <<Set(<<"x">>, IntLit(3, l), l)>>,
     <<Decl(<<"x">>, IntLit(3, l), l)>>}

\* `do body end` and what follows it
BlockPrograms ==
    {<<Block(K("End", 1), b)>> \o f :
        b \in SeqsUpTo2(BlockStmts(1) \cup InnerBlocks(1), 0, 2), f \in Followers(2)}

\* `if c do body end` and `if c do body else body end`, and what follows
IfPrograms ==
    {<<If(c, K("Do", 1), b, K("End", 1))>> \o f :
        c \in {Atom(K("True", 1)), Atom(K("False", 1))},
        b \in SeqsUpTo2(BlockStmts(1), 0, 1), f \in Followers(2)}
    \cup {<<IfElse(c, K("Do", 1), b, e, K("End", 1))>> \o f :
             c \in {Atom(K("True", 1)), Atom(K("False", 1))},
             b \in SeqsUpTo2(BlockStmts(1), 0, 1), e \in SeqsUpTo2(BlockStmts(1), 0, 1),
             f \in Followers(2)}

\* a global `x`, then a block, then `x`;  `do a := 1 if c do body end end` with
\* a body that may read or set `a`
MixedPrograms ==
    {<<Decl(<<"x">>, IntLit(0, 1), 1), Block(K("End", 2), b), ExprStmt(Var(<<"x">>, 3))>> :
        b \in SeqsUpTo2(BlockStmts(2), 0, 2)}
    \cup {<<Block(K("End", 1),
                  <<Decl(<<"a">>, IntLit(1, 1), 1), If(c, K("Do", 1), b, K("End", 1))>>)>> :
             c \in {Atom(K("True", 1)), Atom(K("False", 1)), Var(<<"a">>, 1)},
             b \in SeqsUpTo2(BlockStmts(1) \cup {ExprStmt(Var(<<"a">>, 1)),
                                                  Set(<<"a">>, IntLit(2, 1), 1)}, 0, 1)}

\* the programs of section 8 that span several lines, with the lines of their
\* text, and `do a := 1 b := 2 b := 3 end`, `do x := 1 retn end`,
\* `do x := 1 retn 2 end`, and `a := 1`, `a + nil`
ScenarioPrograms ==
    {<<Block(K("End", 5),
             <<Decl(<<"a">>, IntLit(1, 1), 1),
               Block(K("End", 4),
                     <<Decl(<<"a">>, IntLit(2, 2), 2), ExprStmt(Var(<<"a">>, 3))>>)>>)>>,
     <<Decl(<<"a">>, IntLit(10, 1), 1),
       Set(<<"a">>, Binary(Var(<<"a">>, 2), K("Plus", 2), IntLit(5, 2)), 2),
       ExprStmt(Var(<<"a">>, 3))>>,
     <<Block(K("End", 1),
             <<Decl(<<"a">>, IntLit(1, 1), 1), Decl(<<"b">>, IntLit(2, 1), 1),
               Decl(<<"b">>, IntLit(3, 1), 1)>>)>>,
     <<Block(K("End", 1), <<Decl(<<"x">>, IntLit(1, 1), 1), Retn(K("Retn", 1))>>)>>,
     <<Decl(<<"a">>, IntLit(1, 1), 1),
       ExprStmt(Binary(Var(<<"a">>, 2), K("Plus", 2), Atom(K("Nil", 2))))>>,
     <<Block(K("End", 1),
             <<Decl(<<"x">>, IntLit(1, 1), 1), RetnValue(K("Retn", 1), IntLit(2, 1))>>)>>}

\* one program for each statement and each expression the Emitter leaves as
\* todo!(): `while true do 1 end`, `for i in x do end`, `fn f() do end`,
\* `data d do end`, `f()`, `new d`, `x.n`, `x.n = 1`, `x[0]`, `fn() do end`,
\* and `1` followed by a `while`
TodoPrograms ==
    {<<While(Atom(K("True", 1)), <<ExprStmt(IntLit(1, 1))>>)>>,
     <<For(Id(<<"i">>, 1), Var(<<"x">>, 1), <<>>)>>,
     <<Func(Id(<<"f">>, 1), <<>>, <<>>)>>,
     <<Data(Id(<<"d">>, 1), <<>>, <<>>)>>,
     <<ExprStmt(Call(Var(<<"f">>, 1), Tok("RightParen", <<")">>, 1), <<>>))>>,
     <<ExprStmt(New(Id(<<"d">>, 1), <<>>))>>,
     <<ExprStmt(Get(Var(<<"x">>, 1), Id(<<"n">>, 1)))>>,
     <<ExprStmt(SetField(Var(<<"x">>, 1), Id(<<"n">>, 1), IntLit(1, 1)))>>,
     <<ExprStmt(Index(Tok("RightBracket", <<"]">>, 1), Var(<<"x">>, 1), IntLit(0, 1)))>>,
     <<ExprStmt(FuncExpr(Id(<<"f">>, 1), <<>>, <<>>))>>,
     <<ExprStmt(IntLit(1, 1)), While(Atom(K("True", 2)), <<>>)>>}

Programs ==
    BinaryPrograms \cup OtherExprPrograms \cup GlobalPrograms \cup AssertRetnPrograms
    \cup BlockPrograms \cup IfPrograms \cup MixedPrograms \cup ScenarioPrograms
    \cup TodoPrograms

CompileInit ==
    /\ scanner = NewScanner(<<>>)
    /\ program \in Programs
    /\ phase = "compile"
    /\ next_stmt = 0
    /\ em = NewEmitter
    /\ errs = <<>>
    /\ chunk = NewChunk
    /\ ip = 0
    /\ globals = <<>>
    /\ stack = <<>>
    /\ heap = <<>>
    /\ stdout = <<>>
    /\ result = NoResult
    /\ last = [op |-> "new"]

RECURSIVE SeqsUpTo(_, _)
SeqsUpTo(S, n) ==
    IF n = 0 THEN {<<>>}
    ELSE LET shorter == SeqsUpTo(S, n - 1)
         IN  shorter \cup {Append(s, x) : s \in {t \in shorter : Len(t) = n - 1}, x \in S}

(***************************************************************************)
(* The Machine on its own: Machine::new, then interpret on a chunk that    *)
(* was assembled by hand with the methods of Chunk, as the tests do.       *)
(***************************************************************************)
\* the longest hand-assembled chunk, in instructions
MaxRaw == 3

\* the least byte that is the number of no opcode
NoOpcodeByte ==
    CHOOSE b \in 0 .. 255 :
        OpName[b] = NoOpcode /\ \A c \in 0 .. 255 : OpName[c] = NoOpcode => b <= c

\* the instructions of the hand-assembled chunks: constant 0 is the name a,
\* constant 1 the integer 1
RawInstrs ==
    {<<Op.Constant, 1>>, <<Op.SetGlobal, 0>>, <<Op.GetGlobal, 0>>, <<Op.DeclareGlobal, 0>>,
     <<Op.Pop>>, <<Op.Nil>>, <<NoOpcodeByte>>}

\* the chunk c with the instructions i, i + 1, ... of instrs written to it
RECURSIVE Assemble(_, _, _)
Assemble(c, instrs, i) ==
    IF i > Len(instrs) THEN c
    ELSE Assemble(IF Len(instrs[i]) = 2
                  THEN write_arg_u16(c, instrs[i][1], instrs[i][2], 1)
                  ELSE write(c, instrs[i][1], 1),
                  instrs, i + 1)

RawChunks ==
    {Assemble(make_constant(make_constant(NewChunk, CString(<<"a">>)).chunk,
                            CInteger(1)).chunk, instrs, 1) :
        instrs \in SeqsUpTo(RawInstrs, MaxRaw)}

RawInit ==
    /\ scanner = NewScanner(<<>>)
    /\ program = <<>>
    /\ phase = "new"
    /\ next_stmt = 0
    /\ em = NewEmitter
    /\ errs = <<>>
    /\ chunk \in RawChunks
    /\ ip = 0
    /\ globals = <<>>
    /\ stack = <<>>
    /\ heap = <<>>
    /\ stdout = <<>>
    /\ result = NoResult
    /\ last = [op |-> "new"]

\* the chunk at hand was assembled by hand: no program was compiled into it
Assembled == program = <<>> /\ chunk \in RawChunks

\* a run starts from an AST, which is compiled and run, or from a chunk
Init == CompileInit \/ RawInit

\* Machine::interpret on the chunk at hand: the loop starts where Machine::new
\* left ip, at 0
Interpret ==
    /\ phase = "new"
    /\ phase' = "run"
    /\ last' = [op |-> "interpret"]
    /\ UNCHANGED <<scanner, program, next_stmt, em, errs, chunk, ip, globals, stack, heap,
                   stdout, result>>

\* Machine::start_at: ip is set to start, then interpret
StartAt ==
    /\ phase = "new"
    /\ \E start \in 0 .. Len(chunk.data) : ip' = start
    /\ phase' = "run"
    /\ last' = [op |-> "start_at"]
    /\ UNCHANGED <<scanner, program, next_stmt, em, errs, chunk, globals, stack, heap,
                   stdout, result>>

Next ==
    \/ CompileStmt
    \/ CompileReturn
    \/ ExecPop
    \/ ExecReturn
    \/ ExecConstant
    \/ ExecNil
    \/ ExecTrue
    \/ ExecFalse
    \/ ExecNegate
    \/ ExecNot
    \/ ExecAdd
    \/ ExecSubtract
    \/ ExecMultiply
    \/ ExecDivide
    \/ ExecModulo
    \/ ExecEqual
    \/ ExecGreater
    \/ ExecLess
    \/ ExecGreaterEqual
    \/ ExecLessEqual
    \/ ExecGetLocal
    \/ ExecSetLocal
    \/ ExecGetGlobal
    \/ ExecSetGlobal
    \/ ExecDeclareGlobal
    \/ ExecAssert
    \/ ExecJump
    \/ ExecJumpFalse
    \/ ExecNoOpcode
    \/ Halt
    \/ Interpret
    \/ StartAt

Spec == Init /\ [][Next]_vars

(***************************************************************************)
(* Properties.  `last` is the step that led to the current state: its      *)
(* opcode and the Machine's ip and stack before it.                        *)
(***************************************************************************)
\* the arm that executes, and the Rust operator applied by, a binary token
ArmOf ==
    [Plus |-> "Add", Minus |-> "Subtract", Multiply |-> "Multiply", Divide |-> "Divide",
     Modulo |-> "Modulo"]

SymOf == [Plus |-> "+", Minus |-> "-", Multiply |-> "*", Divide |-> "/", Modulo |-> "%"]

\* the program `x k y`
BinaryProgram(x, k, y) == <<ExprStmt(Binary(x, K(k, 1), y))>>

\* the program is `x k y` for two literals
IsBinaryProgram ==
    /\ Len(program) = 1
    /\ program[1].s = "Expr"
    /\ program[1].expr.e = "Binary"
    /\ program[1].expr.lhs.e = "Atom"
    /\ program[1].expr.rhs.e = "Atom"

IsNumber(x) == x.token.kind \in {"Integer", "Double"}

\* the value of a numeric literal
LitValue(x) ==
    IF x.token.kind = "Integer" THEN VInteger(x.token.i)
    ELSE VDouble(x.token.num, x.token.den)

\* l op r has a value, and it is an i64
HasExact(op, l, r) ==
    (op \in {"/", "%"} => r # 0) /\ IntExact(op, l, r) \in IntMin .. IntMax

\* the arm of `x k y` has just run and pushed its result
Pushed(x, k, y) ==
    program = BinaryProgram(x, k, y) /\ last.op = ArmOf[k] /\ phase = "run"

\* after the arm of the program `x k y`, the stack holds just v
Yields(x, k, y, v) ==
    (program = BinaryProgram(x, k, y) /\ last.op = ArmOf[k]) => (phase = "run" /\ stack = <<v>>)

\* C1: in a program `x k y` of two numeric literals and an arithmetic
\* operator, the arm finds x below y on the stack (x was pushed first, so y
\* is popped first) and, when it pushes a result, replaces both by x k y: an
\* Integer for two integers (the exact result when it is in range), the
\* Double of the promoted operands for every mix; so 1 + 2 is Integer(3),
\* and 1 - 2, 2 - 1, 1 / 2, 2 / 1, 1 % 2, 2 % 1, 1 - 0.5, 0.5 - 1, 1 / 0.5
\* and 0.5 / 1 are lhs op rhs.
C1_BinOpOperandOrder ==
    /\ (/\ IsBinaryProgram
        /\ program[1].expr.op.kind \in ArithKinds
        /\ IsNumber(program[1].expr.lhs) /\ IsNumber(program[1].expr.rhs)
        /\ last.op = ArmOf[program[1].expr.op.kind])
       => LET l == LitValue(program[1].expr.lhs)
              r == LitValue(program[1].expr.rhs)
              k == SymOf[program[1].expr.op.kind]
          IN  /\ last.stack = <<l, r>>
              /\ phase = "run" =>
                   /\ Len(stack) = 1
                   /\ IF l.t = "Integer" /\ r.t = "Integer"
                      THEN /\ stack[1].t = "Integer"
                           /\ (HasExact(k, l.i, r.i) => stack[1].i = IntExact(k, l.i, r.i))
                      ELSE stack[1] = [t |-> "Double"] @@ DArith(k, AsDouble(l), AsDouble(r))
    /\ Yields(IntLit(1, 1), "Plus", IntLit(2, 1), VInteger(3))
    /\ Yields(IntLit(1, 1), "Minus", IntLit(2, 1), VInteger(-1))
    /\ Yields(IntLit(2, 1), "Minus", IntLit(1, 1), VInteger(1))
    /\ Yields(IntLit(1, 1), "Divide", IntLit(2, 1), VInteger(0))
    /\ Yields(IntLit(2, 1), "Divide", IntLit(1, 1), VInteger(2))
    /\ Yields(IntLit(1, 1), "Modulo", IntLit(2, 1), VInteger(1))
    /\ Yields(IntLit(2, 1), "Modulo", IntLit(1, 1), VInteger(0))
    /\ Yields(IntLit(1, 1), "Minus", DblLit(1, 2, 1), VDouble(1, 2))
    /\ Yields(DblLit(1, 2, 1), "Minus", IntLit(1, 1), VDouble(-1, 2))
    /\ Yields(IntLit(1, 1), "Divide", DblLit(1, 2, 1), VDouble(2, 1))
    /\ Yields(DblLit(1, 2, 1), "Divide", IntLit(1, 1), VDouble(1, 2))
    /\ Yields(DblLit(1, 2, 1), "Plus", DblLit(1, 2, 1), VDouble(1, 1))
    /\ Yields(DblLit(1, 2, 1), "Multiply", IntLit(2, 1), VDouble(1, 1))

\* `1 - 2` has been subtracted, and `0.5 / 1` divided
C1_Witness ==
    \/ Pushed(IntLit(1, 1), "Minus", IntLit(2, 1)) /\ stack = <<VInteger(-1)>>
    \/ Pushed(DblLit(1, 2, 1), "Divide", IntLit(1, 1)) /\ stack = <<VDouble(1, 2)>>

\* the Constant a literal evaluates to
LitConst(x) == ConstantTryFrom(x.token).c

\* `a := x`, `a = y`, `a`
StoreProgram(x, y) ==
    <<Decl(<<"a">>, x, 1), Set(<<"a">>, y, 2), ExprStmt(Var(<<"a">>, 3))>>

\* `a := x`, `a := y`, `a`
RedeclareProgram(x, y) ==
    <<Decl(<<"a">>, x, 1), Decl(<<"a">>, y, 2), ExprStmt(Var(<<"a">>, 3))>>

\* `a := x`, `a = a k y`, `a`
UpdateProgram(x, k, y) ==
    <<Decl(<<"a">>, x, 1), Set(<<"a">>, Binary(Var(<<"a">>, 2), K(k, 2), y), 2),
      ExprStmt(Var(<<"a">>, 3))>>

\* C2: at global scope a read of a name yields the value most recently
\* stored into it: `a := x`, `a = y`, `a` and `a := x`, `a := y`, `a` both
\* end with the value of y whatever x and y are, `a := x`, `a = a op y`, `a`
\* with x op y for integers, and `a := 10`, `a = a + 5`, `a` with
\* Integer(15); a GetGlobal pushes the value the table holds for its name.
C2_GlobalReadsLastStore ==
    /\ \A x \in FewAtoms(1), y \in FewAtoms(2) :
          /\ program = StoreProgram(x, y) => phase # "done" \/ result = OkResult(LitConst(y))
          /\ program = RedeclareProgram(x, y)
                => phase # "done" \/ result = OkResult(LitConst(y))
          /\ \A k \in ArithKinds :
                (/\ program = UpdateProgram(x, k, y)
                 /\ x.token.kind = "Integer" /\ y.token.kind = "Integer"
                 /\ HasExact(SymOf[k], x.token.i, y.token.i))
                => phase # "done"
                   \/ result = OkResult(CInteger(IntExact(SymOf[k], x.token.i, y.token.i)))
    /\ program = UpdateProgram(IntLit(10, 1), "Plus", IntLit(5, 2))
          => phase # "done" \/ result = OkResult(CInteger(15))
    /\ (last.op = "GetGlobal" /\ phase = "run")
          => Last(stack) = globals[peek_constant(last.ip + 1).c.s]

\* the three programs have run to their end
C2_Witness ==
    /\ phase = "done"
    /\ \/ program = UpdateProgram(IntLit(10, 1), "Plus", IntLit(5, 2))
             /\ result = OkResult(CInteger(15))
       \/ program = RedeclareProgram(IntLit(1, 1), IntLit(2, 2))
             /\ result = OkResult(CInteger(2))
       \/ program = StoreProgram(IntLit(1, 1), StrLit(<<"a">>, 2))
             /\ result = OkResult(CString(<<"a">>))

\* top-level statement j declares the global n
TopDeclares(j, n) ==
    /\ program[j].s = "Assignment"
    /\ program[j].op.kind = "Declare"
    /\ program[j].name.lexeme = n

\* top-level statement i is `n = e` for a name n no earlier top-level
\* statement declared: at top level no local is in scope
AssignsUndeclared(i) ==
    /\ program[i].s = "Assignment"
    /\ program[i].op.kind = "Assign"
    /\ ~\E j \in 1 .. i - 1 : TopDeclares(j, program[i].name.lexeme)

UndefinedVariable(name) ==
    [kind |-> "UndefinedVariable", name |-> name.lexeme, line |-> name.line]

\* the opcodes of a chunk, operands skipped
RECURSIVE Opcodes(_, _)
Opcodes(c, i) ==
    IF i >= Len(c.data) THEN <<>>
    ELSE <<c.data[i + 1]>>
         \o Opcodes(c, IF c.data[i + 1] \in {Op.Constant, Op.GetLocal, Op.SetLocal,
                                             Op.GetGlobal, Op.SetGlobal, Op.DeclareGlobal,
                                             Op.Jump, Op.JumpFalse}
                       THEN i + 3 ELSE i + 1)

\* C3: a top-level `n = e` whose name no earlier statement declared is
\* rejected when it is compiled, with UndefinedVariable for n on the line of
\* n; the statement emits no SetGlobal or SetLocal, and the compilation
\* returns no chunk.  (Violated: after a block that failed to compile, a name
\* the block declared is still a local for the emitter; see C18.)
C3_UndeclaredAssignRejected ==
    /\ (last.op = "CompileStmt" /\ AssignsUndeclared(next_stmt))
          => /\ errs # <<>>
             /\ Last(errs) = UndefinedVariable(program[next_stmt].name)
             /\ Last(Opcodes(em.chunk, 0)) \notin {Op.SetGlobal, Op.SetLocal}
    /\ (\E i \in 1 .. next_stmt : AssignsUndeclared(i)) => phase # "run"

\* `do x := 1  y = 2 end`, `x = 3`: the second statement has been compiled
C3_FailedBlockThenAssign ==
    /\ program = <<Block(K("End", 1), <<Decl(<<"x">>, IntLit(1, 1), 1),
                                        Set(<<"y">>, IntLit(2, 1), 1)>>),
                   Set(<<"x">>, IntLit(3, 2), 2)>>
    /\ next_stmt = 2
    /\ errs = <<UndefinedVariable(Id(<<"y">>, 1))>>
    /\ Last(Opcodes(em.chunk, 0)) = Op.SetLocal

\* a statement of body (or of a block or branch nested in it) declares n
RECURSIVE BodyDeclares(_, _)
BodyDeclares(body, n) ==
    \E k \in DOMAIN body :
       \/ body[k].s = "Assignment" /\ body[k].op.kind = "Declare"
             /\ body[k].name.lexeme = n
       \/ body[k].s = "Block" /\ BodyDeclares(body[k].body, n)
       \/ body[k].s = "If"
             /\ (BodyDeclares(body[k].then, n) \/ BodyDeclares(body[k].else_, n))

\* top-level statement i is the expression `n`, n being declared in a block
\* or if body that ended earlier and by no top-level statement before i
RefersToEndedLocal(i) ==
    /\ program[i].s = "Expr"
    /\ program[i].expr.e = "Variable"
    /\ \E j \in 1 .. i - 1 :
          /\ program[j].s \in {"Block", "If"}
          /\ BodyDeclares(<<program[j]>>, program[i].expr.name.lexeme)
    /\ ~\E j \in 1 .. i - 1 : TopDeclares(j, program[i].expr.name.lexeme)

\* `if true do x := 1 end`, `x`
IfThenReference ==
    <<If(Atom(K("True", 1)), K("Do", 1), <<Decl(<<"x">>, IntLit(1, 1), 1)>>, K("End", 1)),
      ExprStmt(Var(<<"x">>, 2))>>

\* C4: a reference, after the end of a block or if body, to a name declared
\* in it (and not declared as a global) fails to compile with
\* UndefinedVariable for the name on the reference's line and the
\* compilation returns no chunk; `if true do x := 1 end`, `x` ends with
\* that one error.  (Violated: after a block that failed to compile the
\* name is still a local for the emitter; see C18.)
C4_BlockLocalEndsWithBlock ==
    /\ (last.op = "CompileStmt" /\ RefersToEndedLocal(next_stmt))
          => /\ errs # <<>>
             /\ Last(errs) = UndefinedVariable(program[next_stmt].expr.name)
    /\ (\E i \in 1 .. next_stmt : RefersToEndedLocal(i)) => phase # "run"
    /\ (program = IfThenReference /\ phase = "done")
          => result = [kind |-> "errs", errs |-> <<UndefinedVariable(Id(<<"x">>, 2))>>]

\* `do x := 1  y = 2 end`, `x`: the reference compiled to GetLocal, unreported
C4_FailedBlockThenReference ==
    /\ program = <<Block(K("End", 1), <<Decl(<<"x">>, IntLit(1, 1), 1),
                                        Set(<<"y">>, IntLit(2, 1), 1)>>),
                   ExprStmt(Var(<<"x">>, 2))>>
    /\ next_stmt = 2
    /\ errs = <<UndefinedVariable(Id(<<"y">>, 1))>>
    /\ Op.GetLocal \in {Opcodes(em.chunk, 0)[i] : i \in DOMAIN Opcodes(em.chunk, 0)}

\* the if scenario ended with the one error
C4_ScenarioRejected ==
    /\ program = IfThenReference
    /\ phase = "done"
    /\ result = [kind |-> "errs", errs |-> <<UndefinedVariable(Id(<<"x">>, 2))>>]

\* `do a := 1`, `do a := 2`, `a`, `end`, `end`, on five lines
NestedBlockProgram ==
    <<Block(K("End", 5),
            <<Decl(<<"a">>, IntLit(1, 1), 1),
              Block(K("End", 4),
                    <<Decl(<<"a">>, IntLit(2, 2), 2), ExprStmt(Var(<<"a">>, 3))>>)>>)>>

\* C5: interpreting `do a := 1`, `do a := 2`, `a`, `end`, `end` returns
\* Integer(2).  (Violated: the chunk ends with the Pop that closes the outer
\* block, and that Pop returns the outer a.)
C5_NestedBlockReturnsInner ==
    (program = NestedBlockProgram /\ phase = "done") => result = OkResult(CInteger(2))

\* the nested-block program has ended, with Integer(1)
C5_ReturnsOuter ==
    program = NestedBlockProgram /\ phase = "done" /\ result = OkResult(CInteger(1))

\* `assert x && y`
AssertAndProgram(x, y) == <<AssertStmt(K("Assert", 1), Logical(x, K("LogicalAnd", 1), y))>>

\* `assert x == y`
AssertEqualProgram(x, y) == <<AssertStmt(K("Assert", 1), Binary(x, K("Equal", 1), y))>>

\* C6: interpret returns Ok only from a Pop that is the last byte of the
\* chunk, with the value it pops, or from the end of the loop, with the top
\* of the stack if there is one and Nil otherwise; a heap string is returned
\* as a string constant.  So `1 + 2` ends with Integer(3) and `"a" + "b"`
\* with String("ab") (popped by the last Pop), `assert 1 && 2` with
\* Integer(1) (left on the stack) and `assert 1 == 1` with Nil (empty stack).
C6_TerminalValue ==
    /\ (phase = "done" /\ result.kind = "ok")
          => \/ /\ last.op = "Pop"
                /\ last.ip + 1 = Len(chunk.data)
                /\ chunk.data[last.ip + 1] = Op.Pop
                /\ last.stack # <<>>
                /\ result.value = value_into_constant(heap, Last(last.stack))
             \/ /\ last.op = "Halt"
                /\ last.ip >= Len(chunk.data)
                /\ result.value = IF last.stack = <<>> THEN CNil
                                  ELSE value_into_constant(heap, Last(last.stack))
    /\ (last.op = "Pop" /\ last.stack # <<>> /\ last.ip + 1 < Len(chunk.data))
          => phase = "run" /\ result = NoResult
    /\ (phase = "done" /\ result.kind = "ok")
          => result.value.t \in {"Nil", "Bool", "Integer", "Double", "String"}
    /\ (program = BinaryProgram(StrLit(<<"a">>, 1), "Plus", StrLit(<<"b">>, 1))
           /\ phase = "done")
          => result = OkResult(CString(<<"a", "b">>)) /\ last.op = "Pop"
    /\ (program = BinaryProgram(IntLit(1, 1), "Plus", IntLit(2, 1)) /\ phase = "done")
          => result = OkResult(CInteger(3)) /\ last.op = "Pop"
    /\ (program = AssertAndProgram(IntLit(1, 1), IntLit(2, 1)) /\ phase = "done")
          => result = OkResult(CInteger(1)) /\ last.op = "Halt"
    /\ (program = AssertEqualProgram(IntLit(1, 1), IntLit(1, 1)) /\ phase = "done")
          => result = OkResult(CNil) /\ last.op = "Halt"

\* `assert 1 && 2` has ended at the end of the loop with a value on the stack
C6_Witness ==
    /\ program = AssertAndProgram(IntLit(1, 1), IntLit(2, 1))
    /\ phase = "done"
    /\ last.op = "Halt"
    /\ last.stack = <<VInteger(1)>>
    /\ result = OkResult(CInteger(1))

\* `s := x`, `s + y`
ConcatProgram(x, y) ==
    <<Decl(<<"s">>, x, 1), ExprStmt(Binary(Var(<<"s">>, 2), K("Plus", 2), y))>>

\* the text fmt gives for a literal: its value displayed
LitText(y) ==
    CASE y.token.kind = "String" -> Unquote(y.token.lexeme)
      [] y.token.kind = "Nil" -> <<"n", "i", "l">>
      [] y.token.kind = "True" -> <<"t", "r", "u", "e">>
      [] y.token.kind = "False" -> <<"f", "a", "l", "s", "e">>
      [] y.token.kind = "Integer" -> IntToChars(y.token.i)
      [] y.token.kind = "Double" -> DoubleToChars(y.token)

\* the program `x + y` ended with v
EndsWith(x, y, v) ==
    (program = BinaryProgram(x, "Plus", y) /\ phase = "done") => result = OkResult(v)

\* C7: in `x + y` with a string literal x and any literal y, Add pushes a
\* handle to a new heap string, the text of x followed by the text of y,
\* and the program ends with that text as a String constant: "a" + "b" is
\* "ab", "a" + 1 is "a1", "a" + 0.5 is "a0.5", "a" + 1.0 is "a1", "a" + nil
\* is "anil", "a" + true is "atrue", "" + "" is ""; `s := "foo"`,
\* `s + "bar"` ends with String("foobar").  With an integer or double x and
\* a string y, or with x nil or a boolean, Add is IncorrectType.
C7_StringConcat ==
    /\ (/\ IsBinaryProgram /\ program[1].expr.op.kind = "Plus"
        /\ program[1].expr.lhs.token.kind = "String")
          => LET x == program[1].expr.lhs
                 y == program[1].expr.rhs
             IN  /\ last.op = "Add"
                    => /\ phase = "run"
                       /\ Len(stack) = 1 /\ stack[1].t = "Object"
                       /\ stack[1] \notin {last.stack[i] : i \in DOMAIN last.stack}
                       /\ heap[stack[1].h] = LitText(x) \o LitText(y)
                 /\ phase = "done"
                    => result = OkResult(CString(LitText(x) \o LitText(y)))
    /\ (/\ IsBinaryProgram /\ program[1].expr.op.kind = "Plus"
        /\ \/ IsNumber(program[1].expr.lhs) /\ program[1].expr.rhs.token.kind = "String"
           \/ program[1].expr.lhs.token.kind \in {"Nil", "True", "False"}
        /\ last.op = "Add")
          => /\ phase = "done"
             /\ result.kind = "err"
             /\ result.err.kind = "IncorrectType"
             /\ result.err.op = "Add"
    /\ \A y \in Atoms(2) \cup {StrLit(<<"b", "a", "r">>, 2)} :
          (program = ConcatProgram(StrLit(<<"f", "o", "o">>, 1), y) /\ phase = "done")
             => result = OkResult(CString(<<"f", "o", "o">> \o LitText(y)))
    /\ (program = ConcatProgram(StrLit(<<"f", "o", "o">>, 1), StrLit(<<"b", "a", "r">>, 2))
           /\ phase = "done")
          => result = OkResult(CString(<<"f", "o", "o", "b", "a", "r">>))
    /\ EndsWith(StrLit(<<"a">>, 1), StrLit(<<"b">>, 1), CString(<<"a", "b">>))
    /\ EndsWith(StrLit(<<"a">>, 1), IntLit(1, 1), CString(<<"a", "1">>))
    /\ EndsWith(StrLit(<<"a">>, 1), DblLit(1, 2, 1), CString(<<"a", "0", ".", "5">>))
    /\ EndsWith(StrLit(<<"a">>, 1), DblLit(1, 1, 1), CString(<<"a", "1">>))
    /\ EndsWith(StrLit(<<"a">>, 1), Atom(K("Nil", 1)), CString(<<"a", "n", "i", "l">>))
    /\ EndsWith(StrLit(<<"a">>, 1), Atom(K("True", 1)), CString(<<"a", "t", "r", "u", "e">>))
    /\ EndsWith(StrLit(<<>>, 1), StrLit(<<>>, 1), CString(<<>>))

\* `s := "foo"`, `s + "bar"` has ended with "foobar"
C7_Witness ==
    /\ program = ConcatProgram(StrLit(<<"f", "o", "o">>, 1), StrLit(<<"b", "a", "r">>, 2))
    /\ phase = "done"
    /\ result = OkResult(CString(<<"f", "o", "o", "b", "a", "r">>))

\* the one `assert` statement of the program, if it has one
AssertIndex == CHOOSE i \in DOMAIN program : program[i].s = "Assert"

HasAssert == \E i \in DOMAIN program : program[i].s = "Assert"

\* the literal is nil or false
IsFalsyLiteral(x) == x.token.kind \in {"Nil", "False"}

AssertFailed(line) == ErrResult([kind |-> "AssertFailed", line |-> line])

\* C8: Assert pops exactly one value: when that value is nil or false the
\* run ends with AssertFailed on the line of the program's `assert` keyword,
\* otherwise the run goes on with the stack one shorter and nothing else
\* changed.  `assert x` fails exactly for the literals nil and false,
\* `assert 1 == 1` ends with Nil and `assert 1 == 2` with AssertFailed on
\* line 1; after `a := 1` on line 1, `assert 1 == 2` fails on line 2.
C8_Assert ==
    /\ (last.op = "Assert" /\ last.stack # <<>>)
          => /\ stack = Front(last.stack)
             /\ HasAssert
             /\ IF is_truthy(Last(last.stack))
                THEN phase = "run" /\ result = NoResult /\ ip = last.ip + 1
                ELSE phase = "done" /\ result = AssertFailed(program[AssertIndex].keyword.line)
    /\ (/\ Len(program) = 1 /\ program[1].s = "Assert" /\ program[1].value.e = "Atom"
        /\ phase = "done")
          => result = IF IsFalsyLiteral(program[1].value) THEN AssertFailed(1)
                      ELSE OkResult(CNil)
    /\ (program = AssertEqualProgram(IntLit(1, 1), IntLit(1, 1)) /\ phase = "done")
          => result = OkResult(CNil)
    /\ (program = AssertEqualProgram(IntLit(1, 1), IntLit(2, 1)) /\ phase = "done")
          => result = AssertFailed(1)
    /\ (program = <<Decl(<<"a">>, IntLit(1, 1), 1),
                    AssertStmt(K("Assert", 2),
                               Binary(IntLit(1, 2), K("Equal", 2), IntLit(2, 2)))>>
           /\ phase = "done")
          => result = AssertFailed(2)

\* `assert 1 == 2` on line 2 has failed there, and `assert 1 == 1` has passed
C8_Witness ==
    \/ /\ program = <<Decl(<<"a">>, IntLit(1, 1), 1),
                      AssertStmt(K("Assert", 2),
                                 Binary(IntLit(1, 2), K("Equal", 2), IntLit(2, 2)))>>
       /\ last.op = "Assert"
       /\ result = AssertFailed(2)
    \/ /\ program = AssertEqualProgram(IntLit(1, 1), IntLit(1, 1))
       /\ last.op = "Assert"
       /\ phase = "run"
       /\ stack = <<>>

\* `! x`
NotProgram(x) == <<ExprStmt(Unary(K("Not", 1), x))>>

\* C9: only nil and false are falsy.  In `! x` for a literal x, Not replaces
\* the value of x by Bool(true) when x is nil or false and by Bool(false) for
\* every other literal, the integer 0 and the empty string included; and
\* `assert x` fails for nil and false only.
C9_Truthiness ==
    /\ (/\ Len(program) = 1 /\ program[1].s = "Expr" /\ program[1].expr.e = "Unary"
        /\ program[1].expr.op.kind = "Not" /\ program[1].expr.rhs.e = "Atom"
        /\ last.op = "Not")
          => /\ phase = "run"
             /\ stack = <<VBool(IsFalsyLiteral(program[1].expr.rhs))>>
    /\ (program = NotProgram(IntLit(0, 1)) /\ last.op = "Not") => stack = <<VBool(FALSE)>>
    /\ (program = NotProgram(StrLit(<<>>, 1)) /\ last.op = "Not") => stack = <<VBool(FALSE)>>
    /\ (program = NotProgram(Atom(K("Nil", 1))) /\ last.op = "Not") => stack = <<VBool(TRUE)>>
    /\ (program = NotProgram(Atom(K("False", 1))) /\ last.op = "Not")
          => stack = <<VBool(TRUE)>>
    /\ (last.op = "Not" /\ last.stack # <<>>)
          => /\ Front(stack) = Front(last.stack)
             /\ Last(stack) = VBool(Last(last.stack) \in {VNil, VBool(FALSE)})
    /\ (/\ Len(program) = 1 /\ program[1].s = "Assert" /\ program[1].value.e = "Atom"
        /\ last.op = "Assert")
          => (phase = "done" <=> IsFalsyLiteral(program[1].value))

\* `! 0` and `! ""` have pushed false, `! nil` true
C9_Witness ==
    /\ last.op = "Not"
    /\ \/ program = NotProgram(IntLit(0, 1)) /\ stack = <<VBool(FALSE)>>
       \/ program = NotProgram(StrLit(<<>>, 1)) /\ stack = <<VBool(FALSE)>>
       \/ program = NotProgram(Atom(K("Nil", 1))) /\ stack = <<VBool(TRUE)>>

\* `x == y`
EqualProgram(x, y) == BinaryProgram(x, "Equal", y)

\* after Equal in `x == y`, the stack holds just Bool(b)
EqualYields(x, y, b) ==
    (program = BinaryProgram(x, "Equal", y) /\ last.op = "Equal")
       => (phase = "run" /\ stack = <<VBool(b)>>)

\* C10: Equal pops two values and pushes one Bool.  In `x == y` for two
\* literals the Bool is true exactly when x and y have the same type and the
\* same value (nil with nil, equal booleans, equal integers, equal doubles,
\* strings of equal content), so it is the same for `y == x`; `1 == 1.0` is
\* false, "a" == "a" true, "a" == "b" false, nil == nil true.
C10_Equal ==
    /\ (/\ IsBinaryProgram /\ program[1].expr.op.kind = "Equal" /\ last.op = "Equal")
          => /\ phase = "run"
             /\ Len(last.stack) = 2
             /\ stack = <<VBool(LitConst(program[1].expr.lhs) = LitConst(program[1].expr.rhs))>>
    /\ (last.op = "Equal" /\ Len(last.stack) >= 2 /\ phase = "run")
          => /\ Len(stack) = Len(last.stack) - 1
             /\ Last(stack).t = "Bool"
    /\ EqualYields(IntLit(1, 1), DblLit(1, 1, 1), FALSE)
    /\ EqualYields(DblLit(1, 1, 1), IntLit(1, 1), FALSE)
    /\ EqualYields(IntLit(1, 1), IntLit(1, 1), TRUE)
    /\ EqualYields(IntLit(1, 1), IntLit(2, 1), FALSE)
    /\ EqualYields(StrLit(<<"a">>, 1), StrLit(<<"a">>, 1), TRUE)
    /\ EqualYields(StrLit(<<"a">>, 1), StrLit(<<"b">>, 1), FALSE)
    /\ EqualYields(Atom(K("Nil", 1)), Atom(K("Nil", 1)), TRUE)
    /\ EqualYields(Atom(K("True", 1)), Atom(K("True", 1)), TRUE)
    /\ EqualYields(Atom(K("True", 1)), Atom(K("False", 1)), FALSE)
    /\ EqualYields(DblLit(1, 2, 1), DblLit(1, 2, 1), TRUE)
    /\ EqualYields(Atom(K("Nil", 1)), Atom(K("False", 1)), FALSE)
    /\ EqualYields(IntLit(0, 1), Atom(K("False", 1)), FALSE)

\* `1 == 1.0` has pushed false, and `"a" == "a"` true
C10_Witness ==
    /\ last.op = "Equal"
    /\ \/ program = EqualProgram(IntLit(1, 1), DblLit(1, 1, 1)) /\ stack = <<VBool(FALSE)>>
       \/ program = EqualProgram(StrLit(<<"a">>, 1), StrLit(<<"a">>, 1))
             /\ stack = <<VBool(TRUE)>>

(***************************************************************************)
(* The Chunk on its own: a sequence of writes applied to an empty chunk.   *)
(* program is the sequence of writes asked for, each a byte and a line;    *)
(* next_stmt counts the writes done.                                       *)
(***************************************************************************)
\* the longest sequence of writes
MaxWrites == 4
\* the lines of the writes are 1 .. MaxLine
MaxLine == 2

\* the bytes written
WriteBytes == {Op.Return, Op.Pop}

WriteCalls == [byte : WriteBytes, line : 1 .. MaxLine]

ChunkInit ==
    /\ scanner = NewScanner(<<>>)
    /\ program \in SeqsUpTo(WriteCalls, MaxWrites)
    /\ phase = "write"
    /\ next_stmt = 0
    /\ em = NewEmitter
    /\ errs = <<>>
    /\ chunk = NewChunk
    /\ ip = 0
    /\ globals = <<>>
    /\ stack = <<>>
    /\ heap = <<>>
    /\ stdout = <<>>
    /\ result = NoResult
    /\ last = [op |-> "new"]

\* c.write(byte, line) for the next write of the sequence
ChunkWrite ==
    /\ phase = "write"
    /\ next_stmt < Len(program)
    /\ chunk' = write(chunk, program[next_stmt + 1].byte, program[next_stmt + 1].line)
    /\ next_stmt' = next_stmt + 1
    /\ last' = [op |-> "write"]
    /\ UNCHANGED <<scanner, program, phase, em, errs, ip, globals, stack, heap, stdout, result>>

ChunkNext ==
    \/ ChunkWrite

ChunkSpec == ChunkInit /\ [][ChunkNext]_vars

\* C11: after any sequence of chunk writes data and lines have the same length,
\* and get_line_from_index(i) is the line passed with the write that produced
\* byte i (and byte i is the byte of that write).
C11_LineOfEachWrite ==
    phase = "write" =>
        /\ Len(chunk.data) = next_stmt
        /\ Len(chunk.lines) = Len(chunk.data)
        /\ \A i \in 0 .. next_stmt - 1 :
              /\ get_line_from_index(chunk, i) = program[i + 1].line
              /\ chunk.data[i + 1] = program[i + 1].byte

\* three writes done, the lines passed being 2, 1, 2
C11_Witness ==
    /\ phase = "write"
    /\ next_stmt = 3
    /\ [i \in 1 .. 3 |-> program[i].line] = <<2, 1, 2>>
    /\ [i \in 0 .. 2 |-> get_line_from_index(chunk, i)] = [i \in 0 .. 2 |-> program[i + 1].line]

(***************************************************************************)
(* The constant pool on its own: make_constant applied again and again.    *)
(* program is the sequence of values to add, next_stmt counts the calls.   *)
(***************************************************************************)
\* the number of make_constant calls of a run
PoolLen == 258

\* the largest index a u16 operand can carry
U16Max == 2 ^ 16 - 1

\* the constants "0", "1", ... of a program of PoolLen distinct string literals,
\* and PoolLen times the same one
PoolPrograms ==
    {[i \in 1 .. PoolLen |-> CString(NatToChars(i - 1))],
     [i \in 1 .. PoolLen |-> CString(<<"a">>)]}

PoolInit ==
    /\ scanner = NewScanner(<<>>)
    /\ program \in PoolPrograms
    /\ phase = "pool"
    /\ next_stmt = 0
    /\ em = NewEmitter
    /\ errs = <<>>
    /\ chunk = NewChunk
    /\ ip = 0
    /\ globals = <<>>
    /\ stack = <<>>
    /\ heap = <<>>
    /\ stdout = <<>>
    /\ result = NoResult
    /\ last = [op |-> "new"]

\* c.make_constant(value) for the next value of the sequence
PoolMakeConstant ==
    /\ phase = "pool"
    /\ result = NoResult
    /\ next_stmt < Len(program)
    /\ LET m == make_constant(chunk, program[next_stmt + 1])
       IN  /\ chunk' = m.chunk
           /\ result' = IF m.panic THEN PanicResult ELSE NoResult
           /\ last' = [op |-> "make_constant", idx |-> m.idx]
    /\ next_stmt' = next_stmt + 1
    /\ UNCHANGED <<scanner, program, phase, em, errs, ip, globals, stack, heap, stdout>>

PoolNext ==
    \/ PoolMakeConstant

PoolSpec == PoolInit /\ [][PoolNext]_vars

\* C12: for every pool size up to the 16-bit ceiling make_constant appends the
\* value and returns the index of the new entry (and does not fail).
C12_PoolUpToU16 ==
    (phase = "pool" /\ last.op = "make_constant" /\ last.idx <= U16Max) =>
        /\ result = NoResult
        /\ last.idx = Len(chunk.constants) - 1
        /\ chunk.constants[last.idx + 1] = program[next_stmt]

(***************************************************************************)
(* Properties of the constant pool a compilation builds.                   *)
(***************************************************************************)
\* the chunk of the compilation: in the emitter until compile returns it
Compiled == IF phase = "compile" THEN em.chunk ELSE chunk

\* the (0-based) indices of the pool entries equal to the constant c
EntriesOf(c) == {i \in 0 .. Len(Compiled.constants) - 1 : Compiled.constants[i + 1] = c}

\* C13: whatever else the program contains, each string literal the emitter
\* has compiled, however often it occurs, has exactly one entry in the
\* constant pool.
C13_OneEntryPerString ==
    phase \in {"compile", "run", "done"} =>
        \A lexeme \in DOMAIN em.strings :
            Cardinality(EntriesOf(CString(Unquote(lexeme)))) = 1

\* the binary expression statement is `x op x` for one integer, double or string literal x
SameLiteralTwice ==
    /\ IsBinaryProgram
    /\ program[1].expr.lhs.token.kind \in {"String", "Integer", "Double"}
    /\ program[1].expr.lhs.token = program[1].expr.rhs.token

\* C14: constants are interned by value equality: the two Constant
\* instructions of `x op x` carry the same index, and the constant pool never
\* holds two equal constants.
C14_ConstantsInterned ==
    /\ (SameLiteralTwice /\ phase \in {"run", "done"})
          => read_short(chunk, 1) = read_short(chunk, 4)
    /\ phase \in {"compile", "run", "done"}
          => \A i, j \in DOMAIN Compiled.constants :
                Compiled.constants[i] = Compiled.constants[j] => i = j

(***************************************************************************)
(* Properties of the line map a compilation builds.                        *)
(***************************************************************************)
\* C15: in the chunk being compiled get_line_from_index never decreases as the
\* byte offset grows (the tokens of a program come in line order, and every
\* byte carries the line of its token).
C15_LinesNonDecreasing ==
    phase \in {"compile", "run", "done"} =>
        \A i, j \in 0 .. Len(Compiled.data) - 1 :
            i <= j => get_line_from_index(Compiled, i) <= get_line_from_index(Compiled, j)

(***************************************************************************)
(* The two-byte operand on its own: a u16 is decoded, encoded again,       *)
(* written after an opcode and read back.  program is the u16.             *)
(***************************************************************************)
BytesInit ==
    /\ scanner = NewScanner(<<>>)
    /\ program \in 0 .. U16Max
    /\ phase = "bytes"
    /\ next_stmt = 0
    /\ em = NewEmitter
    /\ errs = <<>>
    /\ chunk = NewChunk
    /\ ip = 0
    /\ globals = <<>>
    /\ stack = <<>>
    /\ heap = <<>>
    /\ stdout = <<>>
    /\ result = NoResult
    /\ last = [op |-> "new"]

\* let (low, high) = decode_bytes(bytes)
BytesDecode ==
    /\ phase = "bytes"
    /\ last.op = "new"
    /\ last' = [op |-> "decode_bytes", low |-> decode_bytes(program).low,
                high |-> decode_bytes(program).high]
    /\ UNCHANGED <<scanner, program, phase, next_stmt, em, errs, chunk, ip, globals, stack, heap,
                   stdout, result>>

\* encode_bytes(low, high)
BytesEncode ==
    /\ phase = "bytes"
    /\ last.op = "decode_bytes"
    /\ last' = [op |-> "encode_bytes", bytes |-> encode_bytes(last.low, last.high)]
    /\ UNCHANGED <<scanner, program, phase, next_stmt, em, errs, chunk, ip, globals, stack, heap,
                   stdout, result>>

\* the emitter's chunk.write_arg_u16(Opcode::Constant, bytes, 1)
BytesWriteArg ==
    /\ phase = "bytes"
    /\ last.op = "encode_bytes"
    /\ chunk' = write_arg_u16(chunk, Op.Constant, program, 1)
    /\ last' = [op |-> "write_arg_u16"]
    /\ UNCHANGED <<scanner, program, phase, next_stmt, em, errs, ip, globals, stack, heap, stdout,
                   result>>

\* the Machine's chunk.read_short(ip), ip being the offset after the opcode
BytesReadShort ==
    /\ phase = "bytes"
    /\ last.op = "write_arg_u16"
    /\ ip' = 1
    /\ last' = [op |-> "read_short", bytes |-> read_short(chunk, 1)]
    /\ UNCHANGED <<scanner, program, phase, next_stmt, em, errs, chunk, globals, stack, heap, stdout,
                   result>>

BytesNext ==
    \/ BytesDecode
    \/ BytesEncode
    \/ BytesWriteArg
    \/ BytesReadShort

BytesSpec == BytesInit /\ [][BytesNext]_vars

\* C16: for every 16-bit x, decode_bytes(x) is (x mod 256, x div 256) and
\* encode_bytes of that pair is x; the operand written after an opcode is laid
\* out low byte first and is read back unchanged.
C16_EncodeDecode ==
    phase = "bytes" =>
        /\ last.op = "decode_bytes"
              => last.low = program % 256 /\ last.high = program \div 256
        /\ last.op = "encode_bytes" => last.bytes = program
        /\ last.op = "write_arg_u16"
              => chunk.data = <<Op.Constant, program % 256, program \div 256>>
        /\ last.op = "read_short" => last.bytes = program

\* 0xbead written as 0xad, 0xbe and read back
C16_Witness ==
    /\ phase = "bytes"
    /\ program = 48813
    /\ last = [op |-> "read_short", bytes |-> 48813]
    /\ chunk.data = <<Op.Constant, 173, 190>>

(***************************************************************************)
(* Properties of the emitter's scopes.                                     *)
(***************************************************************************)
\* compiling stmt from the emitter e either fails or leaves scope_depth and
\* locals as they are in e
Restores(e, stmt) ==
    LET r == VisitStmt(e, stmt)
    IN  r.err = NoErr => (r.em.scope_depth = e.scope_depth /\ r.em.locals = e.locals)

\* Restores for the block or if statement stmt compiled from e, and for every
\* block and if statement nested in a block body that the emitter gets to
RECURSIVE RestoresAtEveryDepth(_, _)
RestoresAtEveryDepth(e, stmt) ==
    /\ Restores(e, stmt)
    /\ stmt.s = "Block" =>
          \A k \in 1 .. Len(stmt.body) :
              LET before == VisitStmts([e EXCEPT !.scope_depth = @ + 1],
                                       SubSeq(stmt.body, 1, k - 1), 1)
              IN  (stmt.body[k].s \in {"Block", "If"} /\ before.err = NoErr)
                      => RestoresAtEveryDepth(before.em, stmt.body[k])

\* C17: when a top-level `do ... end` or `if` has just been compiled, that
\* statement, and every block or if nested in it, whose statements all compile
\* left scope_depth and locals equal to their values before it.
C17_BlockRestoresScope ==
    (last.op = "CompileStmt" /\ program[next_stmt].s \in {"Block", "If"}) =>
        /\ RestoresAtEveryDepth(last.em, program[next_stmt])
        /\ last.err = NoErr
              => (em.scope_depth = last.em.scope_depth /\ em.locals = last.em.locals)

\* `do a := 1 do a := 2 a end end` compiled: two locals were declared at
\* depths 1 and 2, both popped, and the emitter is back at depth 0 without locals
C17_Witness ==
    /\ last.op = "CompileStmt"
    /\ program = NestedBlockProgram
    /\ last.err = NoErr
    /\ last.em.scope_depth = 0 /\ em.scope_depth = 0
    /\ last.em.locals = <<>> /\ em.locals = <<>>
    /\ Opcodes(em.chunk, 9) = <<Op.Pop, Op.Pop, Op.Pop>>

\* the first statement of the program is a `do ... end` that fails to compile
FirstBlockFails ==
    /\ program # <<>>
    /\ program[1].s = "Block"
    /\ VisitStmt(NewEmitter, program[1]).err # NoErr

\* C18: a block with a statement that fails to compile is closed all the
\* same: after it scope_depth is 0 and locals is empty, and a `:=` on the next
\* line is compiled as a global declaration, its last instruction being
\* DeclareGlobal.
C18_FailedBlockIsClosed ==
    (FirstBlockFails /\ phase = "compile") =>
        /\ (last.op = "CompileStmt" /\ next_stmt = 1)
              => (em.scope_depth = 0 /\ em.locals = <<>>)
        /\ (last.op = "CompileStmt" /\ next_stmt = 2
            /\ program[2].s = "Assignment" /\ program[2].op.kind = "Declare")
              => /\ last.err = NoErr
                 /\ Last(Opcodes(em.chunk, 0)) = Op.DeclareGlobal

(***************************************************************************)
(* The Scanner.  A source is a sequence of bytes, each a one-character     *)
(* string; byte offset i of the source is source[i + 1].  The operators    *)
(* that can fail return the scanner they leave behind and an error.        *)
(***************************************************************************)
\* the byte 0, which peek and lookahead return at the end of the source
Nul == "NUL"

ScanOk(s) == [sc |-> s, err |-> NoErr]
ScanFail(s, err) == [sc |-> s, err |-> err]

is_digit(c) == c \in {"0", "1", "2", "3", "4", "5", "6", "7", "8", "9"}

\* the byte 0x0B, line tab
VT == "VT"

is_whitespace(c) == c \in {"\t", "\n", VT, "\f", "\r", " "}

is_non_identifier(c) ==
    \/ is_whitespace(c)
    \/ c = Nul
    \/ c \in {"#", "[", "]", "(", ")", ",", "-", "+", "*", "/", "^", "%", "&", "|", ".",
              "!", ":", "=", ">", "<", "\""}

into_keyword(s) ==
    CASE s = <<"d", "o">> -> "Do"
      [] s = <<"e", "n", "d">> -> "End"
      [] s = <<"f", "n">> -> "Fn"
      [] s = <<"i", "f">> -> "If"
      [] s = <<"e", "l", "s", "e">> -> "Else"
      [] s = <<"w", "h", "i", "l", "e">> -> "While"
      [] s = <<"f", "o", "r">> -> "For"
      [] s = <<"i", "n">> -> "In"
      [] s = <<"d", "a", "t", "a">> -> "Data"
      [] s = <<"l", "e", "t">> -> "Let"
      [] s = <<"i", "s">> -> "Is"
      [] s = <<"m", "e">> -> "Me"
      [] s = <<"n", "e", "w">> -> "New"
      [] s = <<"e", "r", "r">> -> "Err"
      [] s = <<"r", "e", "t", "n">> -> "Retn"
      [] s = <<"a", "s", "s", "e", "r", "t">> -> "Assert"
      [] s = <<"t", "r", "u", "e">> -> "True"
      [] s = <<"f", "a", "l", "s", "e">> -> "False"
      [] s = <<"n", "i", "l">> -> "Nil"
      [] OTHER -> "Identifier"

is_at_end(s) == s.current >= Len(s.source)

\* advance and reverse move current; the byte they return is read by the caller
advance(s) == [s EXCEPT !.current = @ + 1]

reverse(s) == [s EXCEPT !.current = @ - 1]

peek(s) == IF is_at_end(s) THEN Nul ELSE s.source[s.current + 1]

lookahead(s, n) ==
    IF is_at_end(s) \/ s.current + n >= Len(s.source) THEN Nul
    ELSE s.source[s.current + n + 1]

\* &self.source[self.start..self.current]
Slice(s) == SubSeq(s.source, s.start + 1, s.current)

\* Scanner::add_token: kind is the TokenKind with its payload, if any
add_token(s, kind) ==
    [s EXCEPT !.tokens = Append(@, kind @@ [lexeme |-> Slice(s), line |-> s.line])]

\* `while self.peek() != b'\n' { self.advance(); }`: advance indexes the source
\* at current - 1, which is out of bounds once the end has been reached
RECURSIVE SkipComment(_)
SkipComment(s) ==
    IF peek(s) = "\n" THEN ScanOk(s)
    ELSE IF is_at_end(s) THEN ScanFail(advance(s), Panic("index out of bounds"))
    ELSE SkipComment(advance(s))

\* `while is_whitespace(self.peek()) { if self.advance() == b'\n' { self.line += 1; } }`
RECURSIVE SkipSpaces(_)
SkipSpaces(s) ==
    IF is_whitespace(peek(s))
    THEN SkipSpaces([advance(s) EXCEPT !.line = IF peek(s) = "\n" THEN @ + 1 ELSE @])
    ELSE s

\* Scanner::slurp_whitespace
RECURSIVE slurp_whitespace(_)
slurp_whitespace(s) ==
    IF peek(s) = "#" \/ is_whitespace(peek(s))
    THEN LET c == IF peek(s) = "#" THEN SkipComment(s) ELSE ScanOk(s)
         IN  IF c.err # NoErr THEN c ELSE slurp_whitespace(SkipSpaces(c.sc))
    ELSE ScanOk(s)

\* `while is_digit(self.peek()) { self.advance(); }`
RECURSIVE Digits(_)
Digits(s) == IF is_digit(peek(s)) THEN Digits(advance(s)) ELSE s

\* `while self.current != 0 && is_digit(self.peek()) { self.reverse(); }`
RECURSIVE Reversed(_)
Reversed(s) == IF s.current # 0 /\ is_digit(peek(s)) THEN Reversed(reverse(s)) ELSE s

\* the number a run of decimal digits denotes
RECURSIVE ParseNat(_)
ParseNat(digits) ==
    IF digits = <<>> THEN 0
    ELSE 10 * ParseNat(Front(digits))
         + (CHOOSE d \in 0 .. 9 : Digit[d + 1] = Last(digits))

\* value.parse::<i64>() of a run of digits: None (-1) when it does not fit
ParseI64(digits) == IF ParseNat(digits) > IntMax THEN -1 ELSE ParseNat(digits)

\* value.parse::<f64>() of digits, or of digits `.` digits (either run may be empty
\* but not both)
ParseF64(text) ==
    LET dot == IF \E i \in DOMAIN text : text[i] = "."
               THEN CHOOSE i \in DOMAIN text : text[i] = "."
               ELSE Len(text) + 1
        whole == SubSeq(text, 1, dot - 1)
        frac == SubSeq(text, dot + 1, Len(text))
    IN  DNorm(ParseNat(whole) * (10 ^ Len(frac)) + ParseNat(frac), 10 ^ Len(frac), 1)

InvalidNumberLiteral(s) ==
    [kind |-> "InvalidNumberLiteral", literal |-> Slice(s), line |-> s.line]

\* Scanner::float
float(s) ==
    LET whole == Digits(s)
        all == IF peek(whole) = "." THEN Digits(advance(whole)) ELSE whole
    IN  [sc |-> all, err |-> NoErr,
         kind |-> [kind |-> "Double", num |-> ParseF64(Slice(all)).num,
                   den |-> ParseF64(Slice(all)).den]]

\* a number that takes any `.` after its digits for a decimal point
NumberDotIsDecimal(s) ==
    IF peek(Digits(s)) = "." THEN float(Digits(s))
    ELSE IF ParseI64(Slice(Digits(s))) = -1
    THEN ScanFail(Digits(s), InvalidNumberLiteral(Digits(s)))
    ELSE [sc |-> Digits(s), err |-> NoErr,
          kind |-> [kind |-> "Integer", i |-> ParseI64(Slice(Digits(s)))]]

\* Scanner::number
number(s) ==
    LET digits == Digits(s)
        range == lookahead(digits, 1) = "."
        back == IF peek(digits) = "." THEN Reversed(digits) ELSE digits
    IN  IF peek(digits) = "." /\ ~range THEN float(back)
        ELSE IF ParseI64(Slice(back)) = -1 THEN ScanFail(back, InvalidNumberLiteral(back))
        ELSE [sc |-> back, err |-> NoErr,
              kind |-> [kind |-> "Integer", i |-> ParseI64(Slice(back))]]

\* the loop of Scanner::string: a line feed counts a line, a backslash takes the
\* byte after it along (and counts a line), and the advance that ends an
\* iteration reads past the source when a backslash was its last byte
RECURSIVE StringBody(_)
StringBody(s) ==
    IF peek(s) # "\"" /\ ~is_at_end(s)
    THEN LET counted == IF peek(s) = "\n" THEN [s EXCEPT !.line = @ + 1] ELSE s
             escaped == IF peek(counted) = "\\"
                        THEN [advance(counted) EXCEPT !.line = @ + 1]
                        ELSE counted
         IN  IF is_at_end(escaped)
             THEN ScanFail(advance(escaped), Panic("index out of bounds"))
             ELSE StringBody(advance(escaped))
    ELSE ScanOk(s)

\* Scanner::string
string(s) ==
    LET body == StringBody(s)
    IN  IF body.err # NoErr THEN body
        ELSE IF is_at_end(body.sc)
        THEN ScanFail(body.sc, [kind |-> "UnterminatedString", line |-> s.line])
        ELSE [sc |-> advance(body.sc), err |-> NoErr, kind |-> [kind |-> "String"]]

\* `while !is_non_identifier(self.peek()) { self.advance(); }`
RECURSIVE IdentifierBody(_)
IdentifierBody(s) == IF is_non_identifier(peek(s)) THEN s ELSE IdentifierBody(advance(s))

\* Scanner::identifier_or_keyword
identifier_or_keyword(s) ==
    [sc |-> IdentifierBody(s), err |-> NoErr,
     kind |-> [kind |-> into_keyword(Slice(IdentifierBody(s)))]]

\* the kind of a token that is one byte whatever follows it
SingleByteKind ==
    [c \in {"[", "]", "(", ")", ",", "-", "+", "*", "/", "^", "%"} |->
        CASE c = "[" -> "LeftBracket" [] c = "]" -> "RightBracket"
          [] c = "(" -> "LeftParen" [] c = ")" -> "RightParen"
          [] c = "," -> "Comma" [] c = "-" -> "Minus" [] c = "+" -> "Plus"
          [] c = "*" -> "Multiply" [] c = "/" -> "Divide"
          [] c = "^" -> "BitwiseXor" [] c = "%" -> "Modulo"]

\* a token of one byte whatever follows
AlwaysOne(s, second, two, one) == [sc |-> s, err |-> NoErr, kind |-> [kind |-> one]]

\* a token of one byte, or of two when the byte `second` follows
OneOrTwo(s, second, two, one) ==
    IF peek(s) = second
    THEN [sc |-> advance(s), err |-> NoErr, kind |-> [kind |-> two]]
    ELSE [sc |-> s, err |-> NoErr, kind |-> [kind |-> one]]

\* the match of Scanner::next_token on the byte c just taken by advance
ScanByte(s, c) ==
    CASE c \in DOMAIN SingleByteKind ->
            [sc |-> s, err |-> NoErr, kind |-> [kind |-> SingleByteKind[c]]]
      [] c = "&" -> OneOrTwo(s, "&", "LogicalAnd", "BitwiseAnd")
      [] c = "|" -> OneOrTwo(s, "|", "LogicalOr", "BitwiseOr")
      [] c = "." ->
            IF peek(s) = "." THEN OneOrTwo(advance(s), ".", "InclusiveRange", "ExclusiveRange")
            ELSE [sc |-> s, err |-> NoErr, kind |-> [kind |-> "Period"]]
      [] c = "!" -> OneOrTwo(s, "=", "NotEqual", "Not")
      [] c = "=" -> OneOrTwo(s, "=", "Equal", "Assign")
      [] c = ">" ->
            IF peek(s) = "=" THEN OneOrTwo(s, "=", "GreaterEqual", "Greater")
            ELSE OneOrTwo(s, ">", "ShiftRight", "Greater")
      [] c = "<" ->
            IF peek(s) = "=" THEN OneOrTwo(s, "=", "LessEqual", "Less")
            ELSE OneOrTwo(s, "<", "ShiftLeft", "Less")
      [] c = "\"" -> string(s)
      [] is_digit(c) -> number(s)
      [] is_whitespace(c) -> ScanFail(s, Panic("found whitespace where there shouldn't be any"))
      [] OTHER -> identifier_or_keyword(s)

\* Scanner::next_token
next_token(s) ==
    LET w == slurp_whitespace(s)
        started == [w.sc EXCEPT !.start = w.sc.current]
        r == ScanByte(advance(started), peek(started))
    IN  IF w.err # NoErr THEN w
        ELSE IF is_at_end(w.sc) THEN ScanOk(add_token(w.sc, [kind |-> "Eof"]))
        ELSE IF r.err # NoErr THEN ScanFail(r.sc, r.err)
        ELSE ScanOk(add_token(r.sc, r.kind))

(***************************************************************************)
(* Scanner::scan_tokens on its own: next_token is called until it returns  *)
(* Eof or an error.                                                        *)
(***************************************************************************)
\* the longest source scanned
MaxSource == 5

\* the bytes of the sources scanned: numbers and ranges
ScanChars == {"1", "5", ".", " "}

\* the longest source with comments and line feeds
MaxText == 4

\* the bytes of the sources with comments and line feeds
TextChars == {"a", "1", "#", "\n", " ", VT}

\* the longest source of operators
MaxOps == 3

\* the bytes of the sources of operators
OpChars == {".", "&", "|", "=", "!", "<", ">", " "}

\* the longest source of string literals
MaxStr == 5

\* the bytes of the sources of string literals
StrChars == {"\"", "\\", "a", "\n"}

\* the longest source of expressions
MaxMix == 4

\* the bytes of the sources of expressions, accesses, calls and assignments
MixChars == {"1", "a", "=", "!", ".", "(", ")"}

Sources ==
    SeqsUpTo(ScanChars, MaxSource) \cup SeqsUpTo(TextChars, MaxText)
    \cup SeqsUpTo(OpChars, MaxOps) \cup SeqsUpTo(StrChars, MaxStr)
    \cup SeqsUpTo(MixChars, MaxMix)

ScanInit ==
    /\ scanner \in {NewScanner(source) : source \in Sources}
    /\ program = <<>>
    /\ phase = "scan"
    /\ next_stmt = 0
    /\ em = NewEmitter
    /\ errs = <<>>
    /\ chunk = NewChunk
    /\ ip = 0
    /\ globals = <<>>
    /\ stack = <<>>
    /\ heap = <<>>
    /\ stdout = <<>>
    /\ result = NoResult
    /\ last = [op |-> "new"]

\* one iteration of `while self.next_token()?.kind != TokenKind::Eof {}`
ScanToken ==
    /\ phase = "scan"
    /\ LET r == next_token(scanner)
       IN  /\ scanner' = r.sc
           /\ IF r.err # NoErr
              THEN /\ phase' = "done"
                   /\ result' = IF r.err.kind = "panic" THEN PanicResult ELSE ErrResult(r.err)
              ELSE IF Last(r.sc.tokens).kind = "Eof"
              THEN /\ phase' = "done"
                   /\ result' = [kind |-> "tokens", tokens |-> r.sc.tokens]
              ELSE UNCHANGED <<phase, result>>
    /\ last' = [op |-> "next_token"]
    /\ UNCHANGED <<program, next_stmt, em, errs, chunk, ip, globals, stack, heap, stdout>>

ScanNext ==
    \/ ScanToken

ScanSpec == ScanInit /\ [][ScanNext]_vars

(***************************************************************************)
(* Properties of the scanner.                                              *)
(***************************************************************************)
\* the offset of the first byte at or after offset i that is not a digit
RECURSIVE RunEnd(_, _)
RunEnd(source, i) ==
    IF i < Len(source) /\ is_digit(source[i + 1]) THEN RunEnd(source, i + 1) ELSE i

\* the byte at offset i of the source, Nul past its end
ByteAt(source, i) == IF i < Len(source) THEN source[i + 1] ELSE Nul

\* next_token has just added a token that starts with a digit
NumberScanned ==
    /\ phase \in {"scan", "done"}
    /\ last.op = "next_token"
    /\ result.kind \in {"none", "tokens"}
    /\ Last(scanner.tokens).kind # "Eof"
    /\ is_digit(ByteAt(scanner.source, scanner.start))

\* the kinds of the tokens scanned
Kinds == [i \in DOMAIN scanner.tokens |-> scanner.tokens[i].kind]

\* C20: a digit run followed by `..` is an Integer token that ends where the
\* run ends, so the `..` is the next token; a digit run followed by one `.`
\* that no second `.` follows is one Double token made of the run, the `.`
\* and the digits after it; `1..5` is Integer(1), ExclusiveRange, Integer(5).
C20_RangeAfterDigits ==
    /\ NumberScanned =>
          LET src == scanner.source
              run == RunEnd(src, scanner.start)
              tok == Last(scanner.tokens)
          IN  /\ (ByteAt(src, run) = "." /\ ByteAt(src, run + 1) = ".")
                    => /\ tok.kind = "Integer"
                       /\ scanner.current = run
                       /\ tok.lexeme = SubSeq(src, scanner.start + 1, run)
                       /\ tok.i = ParseNat(tok.lexeme)
              /\ (ByteAt(src, run) = "." /\ ByteAt(src, run + 1) # ".")
                    => /\ tok.kind = "Double"
                       /\ scanner.current = RunEnd(src, run + 1)
                       /\ tok.lexeme = SubSeq(src, scanner.start + 1, RunEnd(src, run + 1))
    /\ (phase = "done" /\ scanner.source = <<"1", ".", ".", "5">>)
          => /\ Kinds = <<"Integer", "ExclusiveRange", "Integer", "Eof">>
             /\ scanner.tokens[1].i = 1 /\ scanner.tokens[3].i = 5
    /\ (phase = "done" /\ scanner.source = <<"1", ".", "5">>)
          => /\ Kinds = <<"Double", "Eof">>
             /\ scanner.tokens[1].num = 3 /\ scanner.tokens[1].den = 2
    /\ (phase = "done" /\ scanner.source = <<"1", ".">>)
          => /\ Kinds = <<"Double", "Eof">>
             /\ scanner.tokens[1].num = 1 /\ scanner.tokens[1].den = 1

\* `1..5` scanned to its end: Integer(1) `1`, ExclusiveRange `..`, Integer(5) `5`
C20_Witness ==
    /\ phase = "done"
    /\ scanner.source = <<"1", ".", ".", "5">>
    /\ result.kind = "tokens"
    /\ [i \in 1 .. 3 |-> scanner.tokens[i].lexeme] = <<<<"1">>, <<".", ".">>, <<"5">>>>
    /\ Kinds = <<"Integer", "ExclusiveRange", "Integer", "Eof">>

(***************************************************************************)
(* interpret: the scanner's error, the compiler's errors or the Machine's  *)
(* result handed to the caller.  A run starts from a source, which is      *)
(* scanned, parsed, compiled and run, or from an AST, which is compiled    *)
(* and run.  The parser is the recursive descent of section 4.2 of the     *)
(* specification, for expression statements and assignments.               *)
(***************************************************************************)
\* what interpret makes of a result: a single error becomes a list of one
interpret(r) == IF r.kind = "err" THEN [kind |-> "errs", errs |-> <<r.err>>] ELSE r

\* the precedence levels, low to high
Prec ==
    [Assignment |-> 1, Or |-> 2, And |-> 3, Equality |-> 4, Comparison |-> 5, Term |-> 6,
     Factor |-> 7, Unary |-> 8, Call |-> 9, Primary |-> 10]

\* the level of a token as a binary operator, 0 when it is none
InfixPrec(kind) ==
    CASE kind = "LogicalOr" -> Prec.Or
      [] kind = "LogicalAnd" -> Prec.And
      [] kind \in {"Equal", "NotEqual"} -> Prec.Equality
      [] kind \in {"Less", "Greater", "LessEqual", "GreaterEqual"} -> Prec.Comparison
      [] kind \in {"Plus", "Minus"} -> Prec.Term
      [] kind \in {"Multiply", "Divide", "Modulo"} -> Prec.Factor
      [] OTHER -> 0

\* the keywords that begin or divide a statement; the statements made with
\* them are not parsed here
KeywordKinds ==
    {"Do", "End", "Fn", "If", "Else", "While", "For", "In", "Data", "Let", "Is", "Me",
     "New", "Err", "Retn"} \cup {"Assert"}

\* a parse that went wrong at token number at
SyntaxErrorAt(at) == [ok |-> FALSE, at |-> at]

RECURSIVE ParseExpr(_, _, _)
RECURSIVE ParsePrefix(_, _)
RECURSIVE ParseInfix(_, _, _, _)
RECURSIVE ParseArgs(_, _, _)

\* the expression that starts at token i: a literal, a name, a unary operator
\* and its operand, or an expression in parentheses
ParsePrefix(tokens, i) ==
    LET tok == tokens[i]
    IN  CASE tok.kind \in {"Integer", "Double", "String", "True", "False", "Nil"} ->
                [ok |-> TRUE, expr |-> Atom(tok), next |-> i + 1]
          [] tok.kind = "Identifier" -> [ok |-> TRUE, expr |-> Variable(tok), next |-> i + 1]
          [] tok.kind \in {"Not", "Minus"} ->
                LET rhs == ParseExpr(tokens, i + 1, Prec.Unary)
                IN  IF rhs.ok
                    THEN [ok |-> TRUE, expr |-> Unary(tok, rhs.expr), next |-> rhs.next]
                    ELSE rhs
          [] tok.kind = "LeftParen" ->
                LET inner == ParseExpr(tokens, i + 1, Prec.Or)
                IN  IF ~inner.ok THEN inner
                    ELSE IF tokens[inner.next].kind # "RightParen"
                    THEN SyntaxErrorAt(inner.next)
                    ELSE [ok |-> TRUE, expr |-> Paren(inner.expr), next |-> inner.next + 1]
          [] OTHER -> SyntaxErrorAt(i)

\* the arguments of a call from token i to the closing parenthesis, args
\* being those already parsed
ParseArgs(tokens, i, args) ==
    IF tokens[i].kind = "RightParen" /\ args = <<>>
    THEN [ok |-> TRUE, args |-> args, next |-> i]
    ELSE LET arg == ParseExpr(tokens, i, Prec.Or)
         IN  IF ~arg.ok THEN arg
             ELSE IF tokens[arg.next].kind = "Comma"
             THEN ParseArgs(tokens, arg.next + 1, Append(args, arg.expr))
             ELSE IF tokens[arg.next].kind = "RightParen"
             THEN [ok |-> TRUE, args |-> Append(args, arg.expr), next |-> arg.next]
             ELSE SyntaxErrorAt(arg.next)

\* what follows lhs at token j: the accesses, calls and indexings, and the
\* binary operators of level min and above, each with its right operand,
\* left to right
ParseInfix(tokens, lhs, j, min) ==
    LET op == tokens[j]
        rhs == ParseExpr(tokens, j + 1, InfixPrec(op.kind) + 1)
        args == ParseArgs(tokens, j + 1, <<>>)
        idx == ParseExpr(tokens, j + 1, Prec.Or)
    IN  CASE op.kind = "Period" ->
                IF tokens[j + 1].kind = "Identifier"
                THEN ParseInfix(tokens, Get(lhs, tokens[j + 1]), j + 2, min)
                ELSE SyntaxErrorAt(j + 1)
          [] op.kind = "LeftParen" ->
                IF args.ok
                THEN ParseInfix(tokens, Call(lhs, tokens[args.next], args.args),
                                args.next + 1, min)
                ELSE args
          [] op.kind = "LeftBracket" ->
                IF ~idx.ok THEN idx
                ELSE IF tokens[idx.next].kind # "RightBracket" THEN SyntaxErrorAt(idx.next)
                ELSE ParseInfix(tokens, Index(tokens[idx.next], lhs, idx.expr),
                                idx.next + 1, min)
          [] OTHER ->
                IF InfixPrec(op.kind) = 0 \/ InfixPrec(op.kind) < min
                THEN [ok |-> TRUE, expr |-> lhs, next |-> j]
                ELSE IF ~rhs.ok THEN rhs
                ELSE ParseInfix(tokens,
                                IF op.kind \in {"LogicalAnd", "LogicalOr"}
                                THEN Logical(lhs, op, rhs.expr)
                                ELSE Binary(lhs, op, rhs.expr),
                                rhs.next, min)

\* the expression of level min and above that starts at token i
ParseExpr(tokens, i, min) ==
    LET lhs == ParsePrefix(tokens, i)
    IN  IF lhs.ok THEN ParseInfix(tokens, lhs.expr, lhs.next, min) ELSE lhs

\* the statement that starts at token i: `identifier = expr`, or an expression
ParseStmt(tokens, i) ==
    IF tokens[i].kind = "Identifier" /\ tokens[i + 1].kind = "Assign"
    THEN LET value == ParseExpr(tokens, i + 2, Prec.Or)
         IN  IF value.ok
             THEN [ok |-> TRUE, stmt |-> Assignment(tokens[i], tokens[i + 1], value.expr),
                   next |-> value.next]
             ELSE value
    ELSE LET e == ParseExpr(tokens, i, Prec.Or)
         IN  IF e.ok THEN [ok |-> TRUE, stmt |-> ExprStmt(e.expr), next |-> e.next] ELSE e

\* the statements from token i to Eof, or the SyntaxError of the first token
\* that fits no statement, with its line and lexeme: no keyword follows at
\* which the parser could go on
RECURSIVE ParseProgram(_, _)
ParseProgram(tokens, i) ==
    IF tokens[i].kind = "Eof" THEN [program |-> <<>>, errs |-> <<>>]
    ELSE LET st == ParseStmt(tokens, i)
             rest == ParseProgram(tokens, st.next)
         IN  IF ~st.ok
             THEN [program |-> <<>>,
                   errs |-> <<[kind |-> "SyntaxError", line |-> tokens[st.at].line,
                               lexeme |-> tokens[st.at].lexeme]>>]
             ELSE IF rest.errs # <<>> THEN rest
             ELSE [program |-> <<st.stmt>> \o rest.program, errs |-> <<>>]

InterpretInit == Init \/ ScanInit

\* the first half of compile: the tokens scan_tokens returned are parsed; a
\* syntax error is returned to the caller of interpret, a program is handed
\* to the Emitter
Parse ==
    /\ phase = "done"
    /\ last.op = "next_token"
    /\ result.kind = "tokens"
    /\ \A i \in DOMAIN result.tokens : result.tokens[i].kind \notin KeywordKinds
    /\ LET p == ParseProgram(result.tokens, 1)
       IN  IF p.errs # <<>>
           THEN /\ result' = [kind |-> "errs", errs |-> p.errs]
                /\ UNCHANGED <<program, phase>>
           ELSE /\ program' = p.program
                /\ phase' = "compile"
                /\ result' = NoResult
    /\ last' = [op |-> "parse"]
    /\ UNCHANGED <<scanner, next_stmt, em, errs, chunk, ip, globals, stack, heap, stdout>>

\* interpret returns to its caller; a chunk run by hand was not run by it
InterpretReturn ==
    /\ ~Assembled
    /\ phase = "done"
    /\ result.kind \in {"ok", "err", "errs"}
    /\ phase' = "returned"
    /\ result' = interpret(result)
    /\ last' = [op |-> "InterpretReturn", from |-> result]
    /\ UNCHANGED <<scanner, program, next_stmt, em, errs, chunk, ip, globals, stack, heap,
                   stdout>>

InterpretNext ==
    \/ Next
    \/ ScanNext
    \/ Parse
    \/ InterpretReturn

InterpretSpec == InterpretInit /\ [][InterpretNext]_vars

\* the errors of the statements i, i + 1, ... of stmts, each compiled from the
\* emitter the one before it left behind, whether that one failed or not
RECURSIVE Failures(_, _, _)
Failures(e, stmts, i) ==
    IF i > Len(stmts) THEN <<>>
    ELSE LET r == VisitStmt(e, stmts[i])
         IN  (IF r.err = NoErr THEN <<>> ELSE <<r.err>>) \o Failures(r.em, stmts, i + 1)

\* C19: compile goes on to the next top-level statement after a failing one
\* and collects one error per failing statement in source order; it returns
\* the chunk exactly when it collected none and the non-empty list otherwise;
\* interpret hands a scanner error or a runtime error to its caller as a list
\* of one.
C19_ErrorsCollected ==
    /\ last.op = "CompileStmt"
          => /\ phase = "compile"
             /\ errs = Failures(NewEmitter, SubSeq(program, 1, next_stmt), 1)
    /\ last.op = "CompileReturn"
          => /\ next_stmt = Len(program)
             /\ phase = "run" <=> errs = <<>>
             /\ phase = "run" \/ (phase = "done" /\ result = [kind |-> "errs", errs |-> errs])
    /\ last.op = "InterpretReturn"
          => /\ last.from.kind = "err" => result = [kind |-> "errs", errs |-> <<last.from.err>>]
             /\ last.from.kind # "err" => result = last.from
             /\ result.kind = "errs" => result.errs # <<>>

\* the source without its whitespace and its `#` comments, a comment running
\* up to the next line feed or the end of the source
RECURSIVE Stripped(_, _)
Stripped(source, comment) ==
    IF source = <<>> THEN <<>>
    ELSE IF Head(source) = "\n" THEN Stripped(Tail(source), FALSE)
    ELSE IF comment \/ Head(source) = "#" THEN Stripped(Tail(source), TRUE)
    ELSE IF is_whitespace(Head(source)) THEN Stripped(Tail(source), FALSE)
    ELSE <<Head(source)>> \o Stripped(Tail(source), FALSE)

\* the lexemes of the tokens one after the other
RECURSIVE Joined(_)
Joined(tokens) ==
    IF tokens = <<>> THEN <<>> ELSE Joined(Front(tokens)) \o Last(tokens).lexeme

\* C21: when a source has been scanned successfully, the lexemes of its
\* tokens, joined in order, are the source without whitespace and comments:
\* every other byte is in exactly one lexeme, in source order.
C21_LexemesTileSource ==
    (phase = "done" /\ result.kind = "tokens")
        => Joined(result.tokens) = Stripped(scanner.source, FALSE)

(***************************************************************************)
(* Properties of the jumps of an if statement.                             *)
(***************************************************************************)
\* the offsets of the opcode bytes of the chunk c from offset i on
RECURSIVE InstrOffsets(_, _)
InstrOffsets(c, i) ==
    IF i >= Len(c.data) THEN {}
    ELSE {i} \cup InstrOffsets(c, IF c.data[i + 1] \in {Op.Constant, Op.GetLocal,
                                                         Op.SetLocal, Op.GetGlobal,
                                                         Op.SetGlobal, Op.DeclareGlobal,
                                                         Op.Jump, Op.JumpFalse}
                                  THEN i + 3 ELSE i + 1)

\* the offset a jump at offset p of c lands on
JumpTarget(c, p) == p + 3 + read_short(c, p + 1)

\* C22: when the compilation of a top-level if statement has returned, every
\* JumpFalse it wrote lands on the instruction after a Jump and every Jump
\* it wrote lands on an instruction boundary after itself and inside the
\* chunk; the Jump that the JumpFalse of the statement skips lands at the end
\* of the statement's code.
C22_JumpsPatched ==
    (last.op = "CompileStmt" /\ program[next_stmt].s = "If") =>
        LET c == em.chunk
            base == Len(last.em.chunk.data)
            new == {p \in InstrOffsets(c, 0) : p >= base}
        IN  /\ \A p \in new :
                  c.data[p + 1] = Op.JumpFalse
                      => /\ JumpTarget(c, p) <= Len(c.data)
                         /\ JumpTarget(c, p) - 3 \in new
                         /\ JumpTarget(c, p) - 3 > p
                         /\ c.data[JumpTarget(c, p) - 3 + 1] = Op.Jump
            /\ \A p \in new :
                  c.data[p + 1] = Op.Jump
                      => JumpTarget(c, p) \in {q \in new : q > p} \cup {Len(c.data)}
            /\ \E p \in new :
                  /\ c.data[p + 1] = Op.JumpFalse
                  /\ JumpTarget(c, JumpTarget(c, p) - 3) = Len(c.data)

\* the program is one if statement, and it compiled
OneIfCompiled ==
    /\ Len(program) = 1
    /\ program[1].s = "If"
    /\ phase \in {"run", "done"}
    /\ result.kind # "errs"

\* C23: running a compiled if statement takes the value of the condition off
\* the stack exactly once whichever branch is taken: the run of a program that
\* is one if statement ends without error and with the stack as deep as
\* before the condition, that is empty.
C23_IfPopsConditionOnce ==
    (OneIfCompiled /\ phase = "done") => (result.kind = "ok" /\ stack = <<>>)

\* the instruction about to execute reads or writes a local slot
AtLocalOp ==
    /\ phase = "run"
    /\ ip < Len(chunk.data)
    /\ chunk.data[ip + 1] \in {Op.GetLocal, Op.SetLocal}

\* the stack entries below the operand of the instruction about to execute
LocalArea ==
    IF chunk.data[ip + 1] = Op.SetLocal THEN Len(stack) - 1 ELSE Len(stack)

\* C24: when a GetLocal or SetLocal with slot s executes, stack position s is
\* the position of the local the emitter resolved the name to; in particular
\* position s exists on the stack, below the value a SetLocal consumes.
C24_SlotIsStackPosition ==
    AtLocalOp => read_short(chunk, ip + 1) < LocalArea

(***************************************************************************)
(* Name resolution.  The scope of a statement is the sequence of the names *)
(* declared by the `:=` statements before it in the bodies that enclose    *)
(* it, outermost first; at the top level it is empty.                      *)
(***************************************************************************)
\* the slot the emitter e makes a read of name (an `=` to name when assign)
\* go to, or -1 when it compiles it as a global access or answers an error
LocalTarget(e, name, assign) ==
    LET r == IF assign THEN AssignTarget(e, name, K("Assign", name.line))
                      ELSE visit_variable(e, name)
        at == Len(e.chunk.data)
    IN  IF r.err # NoErr THEN -1
        ELSE IF r.em.chunk.data[at + 1] \in {Op.GetLocal, Op.SetLocal}
        THEN read_short(r.em.chunk, at + 1)
        ELSE -1

\* the slot of the innermost declaration of name in scope, the first name of
\* scope being the local of slot base; -1 when scope has no such name
InScopeSlot(base, scope, name) ==
    IF \E i \in DOMAIN scope : scope[i] = name
    THEN base + Max({i \in DOMAIN scope : scope[i] = name}) - 1
    ELSE -1

\* the names that the `:=` statements of body declare, in order
DeclaredBy(body) ==
    LET decls == SelectSeq(body, LAMBDA s : s.s = "Assignment" /\ s.op.kind = "Declare")
    IN  [i \in 1 .. Len(decls) |-> decls[i].name.lexeme]

\* every read and every `=` that the emitter gets to in stmt, compiled from
\* e with the names of scope declared around it, goes to the innermost
\* declaration in scope, and to a global when there is none
RECURSIVE ResolvesInScope(_, _, _, _)
ResolvesInScope(e, base, scope, stmt) ==
    CASE stmt.s = "Expr" ->
            stmt.expr.e = "Variable" =>
                LocalTarget(e, stmt.expr.name, FALSE)
                    = InScopeSlot(base, scope, stmt.expr.name.lexeme)
      [] stmt.s = "Assignment" ->
            LET v == VisitExpr(e, stmt.value)
            IN  (stmt.op.kind = "Assign" /\ v.err = NoErr) =>
                    /\ LocalTarget(v.em, stmt.name, TRUE)
                           = InScopeSlot(base, scope, stmt.name.lexeme)
                    /\ e.scope_depth > 0 =>
                           LocalTarget(v.em, stmt.name, TRUE)
                               = LocalTarget(v.em, stmt.name, FALSE)
      [] stmt.s = "Block" ->
            \A k \in 1 .. Len(stmt.body) :
                LET before == VisitStmts([e EXCEPT !.scope_depth = @ + 1],
                                         SubSeq(stmt.body, 1, k - 1), 1)
                IN  before.err = NoErr =>
                        ResolvesInScope(before.em, base,
                                        scope \o DeclaredBy(SubSeq(stmt.body, 1, k - 1)),
                                        stmt.body[k])
      [] stmt.s = "If" ->
            LET c == VisitExpr(e, stmt.cond)
                t == visit_block(c.em, stmt.end, stmt.then)
            IN  /\ stmt.cond.e = "Variable" =>
                       LocalTarget(e, stmt.cond.name, FALSE)
                           = InScopeSlot(base, scope, stmt.cond.name.lexeme)
                /\ c.err = NoErr =>
                       ResolvesInScope(c.em, base, scope, Block(stmt.end, stmt.then))
                /\ (c.err = NoErr /\ t.err = NoErr /\ stmt.has_else) =>
                       ResolvesInScope(t.em, base, scope, Block(stmt.end, stmt.else_))
      [] OTHER -> TRUE

\* C25: in the statement the emitter is about to compile, a reference to a
\* name goes to the most recently declared local of that name that is still
\* in scope, and to the global of that name when there is none; an `=` in a
\* block goes where a read of the name at that point goes.  At the top level
\* no local is in scope.
C25_ResolvesInnermost ==
    (phase = "compile" /\ next_stmt < Len(program)) =>
        ResolvesInScope(em, Len(em.locals), <<>>, program[next_stmt + 1])

\* what `name := value` in a block must do from the emitter e, the value
\* compiled: the shadowing error naming name when a local of that name was
\* declared at the current depth, a new local at the current depth otherwise
DeclaresOrRejects(e, name) ==
    LET r == DeclareLocal(e, name)
    IN  IF \E i \in DOMAIN e.locals :
               e.locals[i].name = name.lexeme /\ e.locals[i].depth = e.scope_depth
        THEN /\ r.err # NoErr
             /\ r.err.kind = "SyntaxError"
             /\ r.err.msg = "cannot shadow local variable"
             /\ r.err.name = name.lexeme
        ELSE /\ r.err = NoErr
             /\ r.em.locals = Append(e.locals, [name |-> name.lexeme, depth |-> e.scope_depth])

\* DeclaresOrRejects for every `:=` that the emitter gets to in the body of
\* the block stmt compiled from e, and in the blocks nested in it
RECURSIVE DeclaresAtEveryDepth(_, _)
DeclaresAtEveryDepth(e, stmt) ==
    stmt.s = "Block" =>
        \A k \in 1 .. Len(stmt.body) :
            LET before == VisitStmts([e EXCEPT !.scope_depth = @ + 1],
                                     SubSeq(stmt.body, 1, k - 1), 1)
                s == stmt.body[k]
            IN  before.err = NoErr =>
                    /\ DeclaresAtEveryDepth(before.em, s)
                    /\ (s.s = "Assignment" /\ s.op.kind = "Declare"
                        /\ VisitExpr(before.em, s.value).err = NoErr)
                           => DeclaresOrRejects(VisitExpr(before.em, s.value).em, s.name)

\* C26: in the block the emitter is about to compile, at every depth, `N := e`
\* is rejected with `cannot shadow local variable 'N'` exactly when a local
\* named N was declared at the current scope depth, and otherwise pushes the
\* local (N, scope_depth) without an error.
C26_ShadowingRejected ==
    (phase = "compile" /\ next_stmt < Len(program)) =>
        DeclaresAtEveryDepth(em, program[next_stmt + 1])

\* the program begins with a bare `retn` and its Return has just executed
BareRetnExecuted ==
    /\ program # <<>>
    /\ program[1] = Retn(K("Retn", 1))
    /\ phase \in {"run", "done"}
    /\ last.op = "Return"
    /\ last.ip <= 1

\* C27: a bare `retn` compiles as `retn nil`: its Return pops a Nil that the
\* statement itself pushed, so it does not underflow, the run goes on, and the
\* entries under that Nil are left as they were.
C27_BareRetnPopsNil ==
    BareRetnExecuted =>
        /\ last.stack # <<>>
        /\ Last(last.stack) = VNil
        /\ stack = Front(last.stack)
        /\ phase = "run"

\* the `retn` statements of stmts in program order, those of blocks included
RECURSIVE RetnsOf(_)
RetnsOf(stmts) ==
    IF stmts = <<>> THEN <<>>
    ELSE (CASE Head(stmts).s = "Retn" -> <<Head(stmts)>>
            [] Head(stmts).s = "Block" -> RetnsOf(Head(stmts).body)
            [] OTHER -> <<>>)
         \o RetnsOf(Tail(stmts))

\* what the `retn` statement s displays: its value, nil when it has none
RetnText(s) == IF s.has_value THEN LitText(s.value) ELSE <<"n", "i", "l">>

\* the texts of the `retn` statements of the program, in program order
RetnTexts == [i \in DOMAIN RetnsOf(program) |-> RetnText(RetnsOf(program)[i])]

\* C28: Return pops one value, writes its text to stdout and the run goes on
\* with the next instruction; what a run has written is the values of the
\* `retn` statements executed so far, in program order, and all of them when
\* the run ends normally.
C28_ReturnWritesInOrder ==
    /\ (last.op = "Return" /\ last.stack # <<>>)
          => /\ phase = "run"
             /\ ip = last.ip + 1
             /\ stack = Front(last.stack)
             /\ stdout # <<>>
             /\ Last(stdout) = HeapFmt(heap, Last(last.stack))
    /\ phase \in {"run", "done"}
          => /\ Len(stdout) <= Len(RetnTexts)
             /\ stdout = SubSeq(RetnTexts, 1, Len(stdout))
    /\ (phase = "done" /\ result.kind = "ok") => stdout = RetnTexts

\* an instruction of the run has raised an error that is not yet handed to
\* the caller
RuntimeErrorRaised ==
    /\ result.kind = "err"
    /\ phase # "returned"
    /\ last.op # "next_token"

\* C29: once an instruction has raised a runtime error the run is over: the
\* only step that follows is the return of interpret, which leaves the
\* instruction pointer, the stack, the heap, the globals and stdout as the
\* failing instruction left them and hands the caller a list of exactly that
\* one error; nothing happens after the return.
C29_FirstErrorEndsRun ==
    [][/\ RuntimeErrorRaised
          => /\ phase = "done"
             /\ phase' = "returned"
             /\ result' = [kind |-> "errs", errs |-> <<result.err>>]
             /\ UNCHANGED <<ip, stack, heap, globals, stdout, chunk>>
       /\ phase # "returned"]_vars

\* `a := nil`, `a = a + 1`, `a`: Add has failed with the global a stored and
\* instructions left in the chunk, and the caller has received the one error
C29_Witness ==
    /\ phase = "returned"
    /\ last.op = "InterpretReturn"
    /\ last.from.kind = "err"
    /\ last.from.err.kind = "IncorrectType"
    /\ result.kind = "errs"
    /\ Len(result.errs) = 1
    /\ ip < Len(chunk.data)
    /\ DOMAIN globals # {}
    /\ stdout = <<>>

\* the run has ended with an error raised by the instruction at last.ip
RunFailed ==
    /\ phase = "done"
    /\ result.kind = "err"
    /\ last.op \notin {"next_token", "CompileStmt", "CompileReturn"}

\* C30: a runtime error carries the line that the line map of the chunk
\* records for the opcode that raised it.
C30_ErrorLineOfOpcode ==
    RunFailed => result.err.line = get_line_from_index(chunk, last.ip)

\* the opcodes of arithmetic
ArithmeticOps == {"Add", "Subtract", "Multiply", "Divide", "Modulo", "Negate"}

\* the type name of the value of a literal
LitTypeName(x) ==
    CASE x.token.kind = "String" -> "string"
      [] x.token.kind = "Integer" -> "integer"
      [] x.token.kind = "Double" -> "double"
      [] x.token.kind \in {"True", "False"} -> "bool"
      [] x.token.kind = "Nil" -> "nil"

\* the text of the operator of an arithmetic arm
OperatorText ==
    [Add |-> "+", Subtract |-> "-", Multiply |-> "*", Divide |-> "/", Modulo |-> "%"]

\* C31: an arithmetic opcode applied to an operand that is neither an integer
\* nor a double ends the run with IncorrectType, exp "integer or double", op
\* the opcode that was executing, and got the types of the operands in source
\* order: `1 + true` gives got "integer + bool", op Add, on line 1.
C31_IncorrectTypeNamesOpcode ==
    /\ (/\ phase = "done" /\ last.op \in ArithmeticOps
        /\ result.kind = "err" /\ result.err.kind = "IncorrectType")
          => /\ result.err.exp = "integer or double"
             /\ result.err.op = last.op
             /\ (IsBinaryProgram /\ last.op # "Negate")
                   => result.err.got
                        = LitTypeName(program[1].expr.lhs) \o " " \o OperatorText[last.op]
                          \o " " \o LitTypeName(program[1].expr.rhs)
    /\ (program = BinaryProgram(IntLit(1, 1), "Plus", Atom(K("True", 1))) /\ phase = "done")
          => result = ErrResult(IncorrectType("integer or double", "integer + bool", "Add")
                                @@ [line |-> 1])

\* the kinds of the binary operators that can overflow an i64
WrappingKinds == {"Plus", "Minus", "Multiply"}

\* C32: integer Add, Subtract, Multiply and Negate wrap in two's complement:
\* applied to integers, the arm pushes the exact result taken into the signed
\* word and the run goes on; it neither raises an error nor aborts.
C32_IntegerArithmeticWraps ==
    /\ (/\ IsBinaryProgram
        /\ program[1].expr.op.kind \in WrappingKinds
        /\ program[1].expr.lhs.token.kind = "Integer"
        /\ program[1].expr.rhs.token.kind = "Integer"
        /\ last.op = ArmOf[program[1].expr.op.kind])
          => /\ phase = "run"
             /\ stack = <<VInteger(WrapInt(IntExact(SymOf[program[1].expr.op.kind],
                                                    program[1].expr.lhs.token.i,
                                                    program[1].expr.rhs.token.i)))>>
    /\ (last.op = "Negate" /\ last.stack # <<>> /\ Last(last.stack).t = "Integer")
          => /\ phase = "run"
             /\ stack = Append(Front(last.stack), VInteger(WrapInt(0 - Last(last.stack).i)))

(***************************************************************************)
(* Termination.  Machine::interpret is a loop of one thread that runs      *)
(* until it returns: an iteration that can be taken is taken.              *)
(***************************************************************************)
\* one iteration of the loop of Machine::interpret, or its end
MachineStep ==
    \/ ExecPop \/ ExecReturn \/ ExecConstant \/ ExecNil \/ ExecTrue \/ ExecFalse
    \/ ExecNegate \/ ExecNot \/ ExecAdd \/ ExecSubtract \/ ExecMultiply \/ ExecDivide
    \/ ExecModulo \/ ExecEqual \/ ExecGreater \/ ExecLess \/ ExecGreaterEqual
    \/ ExecLessEqual \/ ExecGetLocal \/ ExecSetLocal \/ ExecGetGlobal \/ ExecSetGlobal
    \/ ExecDeclareGlobal \/ ExecAssert \/ ExecJump \/ ExecJumpFalse \/ ExecNoOpcode
    \/ Halt

LiveSpec == Spec /\ WF_vars(MachineStep)

\* the instruction at last.ip has just executed
Executed == phase \in {"run", "done"} /\ last.op \notin {"CompileStmt", "CompileReturn", "new", "interpret", "start_at"}

\* ip is at the offset of an opcode byte of the chunk, or at its end
AtOpcode ==
    /\ 0 <= ip /\ ip <= Len(chunk.data)
    /\ ip < Len(chunk.data) => ip \in InstrOffsets(chunk, 0)

\* the fetches of a run: each at an opcode byte inside the chunk and further
\* on than the one before, the run ending at the end of the chunk, with an
\* error, or with the Pop at the last byte
FetchesAdvance ==
    Assembled \/
    /\ phase = "run" => AtOpcode
    /\ (Executed /\ last.op # "Halt")
          => /\ last.ip \in InstrOffsets(chunk, 0)
             /\ ip > last.ip
    /\ (Executed /\ phase = "done")
          => \/ last.op = "Halt" /\ ip = Len(chunk.data)
             \/ result.kind \in {"err", "panic"}
             \/ last.op = "Pop" /\ ip = Len(chunk.data)

\* C33: while a compiled chunk runs, every fetch finds ip at the offset of an
\* opcode byte inside the chunk, never at an operand byte; from one fetch to
\* the next ip strictly increases, every operand being two bytes and every
\* jump forward; the run stops when ip reaches the end of the chunk or an
\* error is raised, so it always ends.
C33_RunTerminates == []FetchesAdvance /\ ((phase = "run") ~> (phase = "done"))

\* `do a := 1 if false do end end` has run to the end of its chunk: past the
\* two-byte operand of its Constant, and by its JumpFalse over the Jump
C33_Witness ==
    /\ phase = "done"
    /\ result.kind = "ok"
    /\ ip = Len(chunk.data)
    /\ \E i \in InstrOffsets(chunk, 0) : chunk.data[i + 1] = Op.Jump
    /\ chunk.data[1] = Op.Constant
    /\ program[1].s = "Block"

(***************************************************************************)
(* Operators.  The reference is the longest match: at each offset, the     *)
(* longest operator of the table that the source continues with.           *)
(***************************************************************************)
\* the operators of one to three bytes made of the bytes of OpChars
OperatorKind ==
    (<<".", ".", ".">> :> "InclusiveRange") @@ (<<".", ".">> :> "ExclusiveRange")
    @@ (<<".">> :> "Period")
    @@ (<<"&", "&">> :> "LogicalAnd") @@ (<<"&">> :> "BitwiseAnd")
    @@ (<<"|", "|">> :> "LogicalOr") @@ (<<"|">> :> "BitwiseOr")
    @@ (<<"=", "=">> :> "Equal") @@ (<<"=">> :> "Assign")
    @@ (<<"!", "=">> :> "NotEqual") @@ (<<"!">> :> "Not")
    @@ (<<"<", "=">> :> "LessEqual") @@ (<<"<", "<">> :> "ShiftLeft") @@ (<<"<">> :> "Less")
    @@ (<<">", "=">> :> "GreaterEqual") @@ (<<">", ">">> :> "ShiftRight")
    @@ (<<">">> :> "Greater")

\* the length of the longest operator that source continues with at position i
LongestAt(source, i) ==
    Max({n \in 1 .. 3 : i + n - 1 <= Len(source)
                        /\ SubSeq(source, i, i + n - 1) \in DOMAIN OperatorKind})

\* the kinds of the longest-match tokens of source from position i on
RECURSIVE MunchKinds(_, _)
MunchKinds(source, i) ==
    IF i > Len(source) THEN <<>>
    ELSE IF source[i] = " " THEN MunchKinds(source, i + 1)
    ELSE <<OperatorKind[SubSeq(source, i, i + LongestAt(source, i) - 1)]>>
         \o MunchKinds(source, i + LongestAt(source, i))

\* the source is made of operators and spaces only
OperatorSource == \A i \in DOMAIN scanner.source : scanner.source[i] \in OpChars

\* the scan has returned its tokens
Scanned == phase = "done" /\ last.op = "next_token" /\ result.kind = "tokens"

\* C34: the scanner emits the longest operator that matches: a scan of
\* operators returns the kinds of the longest-match tokens in source order,
\* `...` being one InclusiveRange, `..` one ExclusiveRange, `.` a Period and
\* `&&`, `||`, `==`, `!=`, `<=`, `>=`, `<<`, `>>` one token each, followed by
\* Eof; every scan that succeeds ends with exactly one Eof token.
C34_LongestOperator ==
    /\ (Scanned /\ OperatorSource) => Kinds = MunchKinds(scanner.source, 1) \o <<"Eof">>
    /\ (phase = "done" /\ last.op = "next_token" /\ OperatorSource) => Scanned
    /\ Scanned => /\ Kinds # <<>>
                  /\ \A i \in DOMAIN Kinds : Kinds[i] = "Eof" <=> i = Len(Kinds)

\* `...` scanned as one InclusiveRange, or `>= ` as one GreaterEqual
C34_Witness ==
    /\ Scanned
    /\ \/ scanner.source = <<".", ".", ".">> /\ Kinds = <<"InclusiveRange", "Eof">>
       \/ scanner.source = <<">", "=", " ">> /\ Kinds = <<"GreaterEqual", "Eof">>

\* the program is one expression statement and the run is at its Pop, the
\* last byte of the chunk
AtFinalPop ==
    /\ Len(program) = 1
    /\ program[1].s = "Expr"
    /\ phase = "run"
    /\ ip = Len(chunk.data) - 1

\* C35: the code of an expression raises the stack depth by exactly one, and
\* the code of a statement leaves it as it was, the locals of a block being
\* popped where the block ends: the Pop of an expression statement finds one
\* value on the stack of a program that is that statement, and a run that
\* ends normally ends with the stack empty.
C35_StackDiscipline ==
    /\ AtFinalPop => Len(stack) = 1
    /\ (phase = "done" /\ result.kind = "ok") => stack = <<>>

\* the run is about to execute a GetGlobal or a SetGlobal
AtGlobalAccess ==
    /\ phase = "run"
    /\ ip < Len(chunk.data)
    /\ chunk.data[ip + 1] \in {Op.GetGlobal, Op.SetGlobal}

\* C36: in the run of a chunk that compile returned, GetGlobal and SetGlobal
\* never raise UndefinedVariable: the name each of them refers to was stored
\* by a DeclareGlobal executed earlier in the run.
C36_GlobalsDeclaredBeforeUse ==
    ~Assembled =>
        /\ AtGlobalAccess => peek_constant(ip + 1).c.s \in DOMAIN globals
        /\ (phase = "done" /\ result.kind = "err") => result.err.kind # "UndefinedVariable"

\* `a := 1`, `a = a + 2`, `a`: SetGlobal has stored a over its declared value
C36_Witness ==
    /\ phase = "run"
    /\ last.op = "SetGlobal"
    /\ program = UpdateProgram(IntLit(1, 1), "Plus", IntLit(2, 2))
    /\ globals = (<<"a">> :> VInteger(3))

\* a SetGlobal has just failed with UndefinedVariable
SetGlobalFailed ==
    /\ phase = "done"
    /\ last.op = "SetGlobal"
    /\ result.kind = "err"
    /\ result.err.kind = "UndefinedVariable"

\* C37: a SetGlobal of a name that is not in globals raises UndefinedVariable
\* and leaves globals as it was: the name is still not in globals, so a later
\* GetGlobal of it on the same Machine fails too.
C37_FailedSetGlobalStoresNothing ==
    SetGlobalFailed => result.err.name \notin DOMAIN globals

\* the opcodes that pop one value, and those that pop two
PopsOne ==
    {"Pop", "Return", "Negate", "Not", "Assert", "SetGlobal", "DeclareGlobal", "SetLocal",
     "JumpFalse"}

PopsTwo ==
    {"Add", "Subtract", "Multiply", "Divide", "Modulo", "Equal", "Greater", "Less",
     "GreaterEqual", "LessEqual"}

\* the instruction that has just executed popped from an empty stack
Underflowed ==
    /\ Executed
    /\ \/ last.op \in PopsOne \cup PopsTwo /\ last.stack = <<>>
       \/ last.op \in PopsTwo /\ Len(last.stack) = 1

\* C38: an instruction that pops from an empty stack returns StackUnderflow
\* with its own opcode as op, wherever it is in the chunk, its last byte
\* included; the run ends with that error value and never aborts.
C38_UnderflowIsAnError ==
    Underflowed =>
        /\ phase = "done"
        /\ result.kind = "err"
        /\ result.err.kind = "StackUnderflow"
        /\ result.err.op = last.op

(***************************************************************************)
(* Properties of the scanner's results and of the lines of its tokens.     *)
(***************************************************************************)
\* the number of line-feed bytes among the first n bytes of the source
RECURSIVE LineFeeds(_, _)
LineFeeds(source, n) ==
    IF n = 0 THEN 0
    ELSE LineFeeds(source, n - 1) + (IF source[n] = "\n" THEN 1 ELSE 0)

\* the errors scan_tokens returns
ScanErrors == {"UnterminatedString", "InvalidNumberLiteral", "InvalidUTF8"}

\* scan_tokens has stopped
ScanFinished == phase = "done" /\ last.op = "next_token"

\* C39: for every source, scan_tokens returns either a token list that ends
\* in Eof or one of UnterminatedString, InvalidNumberLiteral and InvalidUTF8,
\* UnterminatedString on the line on which the string started; a comment that
\* runs to the end of the input and a string whose last byte is a backslash
\* are among the sources.
C39_ScanReturnsTokensOrError ==
    ScanFinished =>
        \/ /\ result.kind = "tokens"
           /\ result.tokens # <<>>
           /\ Last(result.tokens).kind = "Eof"
        \/ /\ result.kind = "err"
           /\ result.err.kind \in ScanErrors
           /\ result.err.kind = "UnterminatedString"
                 => result.err.line = 1 + LineFeeds(scanner.source, scanner.start)

\* next_token has added a token, which ends at scanner.current
TokenAdded ==
    /\ last.op = "next_token"
    /\ result.kind \in {"none", "tokens"}
    /\ scanner.tokens # <<>>

\* C40: the line of every token is 1 plus the number of line-feed bytes of
\* the source before the token's end, so a backslash inside a string literal
\* leaves the line of the string and of the tokens after it unchanged.
C40_LineCountsLineFeeds ==
    TokenAdded =>
        Last(scanner.tokens).line = 1 + LineFeeds(scanner.source, scanner.current)

=============================================================================
